---- MODULE Spec2Model ----
(***************************************************************************)
(* A model of typecrate's path-expression engine (typecrate/expression.py):*)
(* SourceNode, ExpressionNode.build, ExpressionNode.get and the combinator *)
(* class E.  Python strings are sequences of one-character strings.        *)
(***************************************************************************)
EXTENDS Integers, Sequences, FiniteSets, TLC

VARIABLES
    pc,          \* position of the caller: "start", "built", "raised", "done" or "again"
    expression,  \* the string handed to ExpressionNode.build / E(...)
    dflt,        \* the `default` argument of build / E(...)
    root,        \* the chain build returned (root first, each node's child is the next)
    build_exc,   \* exception class raised by build / E(...), "" if none
    data,        \* the object handed to get
    outcome,     \* what get did: returned value or raised exception, and the nodes it visited
    expression2, \* the string of the second E operand
    dflt2,       \* the default of the second E operand
    tree,        \* E._expression_tree of the first operand
    tree2,       \* E._expression_tree of the second operand
    combined,    \* the operators applied so far as e1 + e2 / e1 | e2, in order
    parser,      \* the MathParser instance: its tokens, index and paren_count
    earlier      \* the expressions the instance has parsed before, in order

vars == <<pc, expression, dflt, root, build_exc, data, outcome,
          expression2, dflt2, tree, tree2, combined, parser, earlier>>

----------------------------------------------------------------------------
(* Bounds of the model *)

\* longest string over BuildAlphabet given to build
MaxLen == 4
\* longest string of identifier characters and dots given to build
MaxIdLen == 6
\* most pieces (segments and suffix operators) in a generated path
MaxPieces == 3
\* largest integer written in a generated slice
MaxSliceArg == 3
\* longest list of integers among the data
MaxListLen == 3
\* most e1 + e2 / e1 | e2 applications on one E
MaxCombine == 2
\* most parse calls made on a MathParser before the call that is observed
MaxEarlier == 2
\* longest string over MathAlphabet parsed on a MathParser that was used before
MaxReuseLen == 2
\* longest text between the brackets of a generated bracket segment
MaxBracketLen == 5
\* longest generated arithmetic input
MaxMathLen == 4
\* longest generated bracket text over digits, '*' and '-'
MaxDigits == 3

----------------------------------------------------------------------------
(* Python values *)

\* A Python value: kind says which of the other fields is meaningful.
Val(kind, i, items, fields, s) ==
    [kind |-> kind, i |-> i, items |-> items, fields |-> fields, s |-> s]

None == Val("none", 0, <<>>, <<>>, <<>>)
\* datatype.NonExistent, the class object used as the no-default sentinel
NonExistent == Val("NonExistent", 0, <<>>, <<>>, <<>>)
\* datatype.Empty, the class object E.get starts its accumulator with
Empty == Val("Empty", 0, <<>>, <<>>, <<>>)
IntV(n) == Val("int", n, <<>>, <<>>, <<>>)
StrV(s) == Val("str", 0, <<>>, <<>>, s)
ListV(items) == Val("list", 0, items, <<>>, <<>>)
\* a dict: fields is a sequence of [k |-> key string, v |-> value], insertion ordered
MapV(fields) == Val("map", 0, <<>>, fields, <<>>)
\* an instance of a user class with plain data attributes
ObjV(fields) == Val("obj", 0, <<>>, fields, <<>>)
KV(k, v) == [k |-> k, v |-> v]

----------------------------------------------------------------------------
(* String helpers (str methods used by the source) *)

RECURSIVE without_spaces(_)
\* str.strip().replace(" ", "")
without_spaces(s) ==
    IF s = <<>> THEN <<>>
    ELSE IF Head(s) = " " THEN without_spaces(Tail(s))
         ELSE <<Head(s)>> \o without_spaces(Tail(s))

endswith(s, ch) == Len(s) > 0 /\ s[Len(s)] = ch

removesuffix(s, ch) == IF endswith(s, ch) THEN SubSeq(s, 1, Len(s) - 1) ELSE s

removeprefix(s, ch) == IF Len(s) > 0 /\ s[1] = ch THEN Tail(s) ELSE s

contains(s, ch) == \E k \in 1..Len(s) : s[k] = ch

\* Python's `s in t` for strings
is_substring(s, t) ==
    \E off \in 0..(Len(t) - Len(s)) : \A k \in 1..Len(s) : t[off + k] = s[k]

RECURSIVE split(_, _)
\* str.split(sep) for a one-character separator
split(s, sep) ==
    IF ~contains(s, sep) THEN <<s>>
    ELSE LET k == CHOOSE j \in 1..Len(s) :
                     s[j] = sep /\ \A m \in 1..(j - 1) : s[m] # sep
         IN <<SubSeq(s, 1, k - 1)>> \o split(SubSeq(s, k + 1, Len(s)), sep)

\* string.digits
digits == <<"0", "1", "2", "3", "4", "5", "6", "7", "8", "9">>

is_digit(ch) == \E k \in 1..10 : digits[k] = ch

digit_value(ch) == (CHOOSE k \in 1..10 : digits[k] = ch) - 1

RECURSIVE digits_value(_)
digits_value(s) ==
    IF s = <<>> THEN 0
    ELSE 10 * digits_value(SubSeq(s, 1, Len(s) - 1)) + digit_value(s[Len(s)])

\* int(s): an optional sign followed by at least one digit; anything else is a ValueError
int_ok(s) ==
    LET body == IF Len(s) > 0 /\ s[1] \in {"-", "+"} THEN Tail(s) ELSE s
    IN Len(body) > 0 /\ \A k \in 1..Len(body) : is_digit(body[k])

int(s) ==
    LET body == IF Len(s) > 0 /\ s[1] \in {"-", "+"} THEN Tail(s) ELSE s
    IN IF Len(s) > 0 /\ s[1] = "-" THEN 0 - digits_value(body) ELSE digits_value(body)

----------------------------------------------------------------------------
(* Tokens *)

LSB == "["
RSB == "]"
DOT == "."
Q_MARK == "?"
UP_CARET == "^"
PLUS == "+"
PIPE == "|"

seperator_tokens == {LSB, RSB, DOT}
unr_operators == {Q_MARK, UP_CARET}
operators == {PLUS, PIPE}

\* SourceOpType.array_op_type
array_op_type == {"ARRAY_SLICE_SELECT", "ARRAY_MULTI_INDEX_SELECT", "ARRAY_FULL_SELECT"}

----------------------------------------------------------------------------
(* SourceNode *)

\* one bound of a slice: None or an integer
SliceNone == [none |-> TRUE, val |-> 0]
SliceInt(n) == [none |-> FALSE, val |-> n]

\* The getter of a SourceNode: a string (gs), an integer (gi) or a list (gl),
\* told apart by source_op_type.
Source(raw, unique, op_type, sot, gs, gi, gl) ==
    [raw_expression |-> raw, unique_array |-> unique, op_type |-> op_type,
     source_op_type |-> sot, gs |-> gs, gi |-> gi, gl |-> gl]

\* the value of a failed construction
NoSource == Source(<<>>, FALSE, "NULL", "NULL", <<>>, 0, <<>>)

\* raise InvalidSourceExpression(...) in SourceNode.__init__
SourceRaised == [exc |-> "InvalidSourceExpression", source |-> NoSource]

\* a SourceNode whose __init__ ran to its end
SourceMade(expr, op_type, sot, gs, gi, gl) ==
    [exc |-> "",
     source |-> Source(expr, endswith(expr, UP_CARET), op_type, sot, gs, gi, gl)]

\* list(map(lambda x: None if x == "" else int(x), parts))
slice_getter(parts) ==
    [k \in 1..Len(parts) |->
        IF parts[k] = <<>> THEN SliceNone ELSE SliceInt(int(parts[k]))]

\* the slice branch of SourceNode.__init__, parts = expression.split(":")
SourceNode_slice(expr, parts) ==
    IF \E k \in 1..Len(parts) : parts[k] # <<>> /\ ~int_ok(parts[k]) THEN SourceRaised
    ELSE IF Len(parts) = 2
    THEN SourceMade(expr, "ARRAY", "ARRAY_SLICE_SELECT", <<>>, 0,
                    Append(slice_getter(parts), SliceNone))
    ELSE IF Len(parts) > 3 THEN SourceRaised
    ELSE SourceMade(expr, "ARRAY", "ARRAY_SLICE_SELECT", <<>>, 0, slice_getter(parts))

\* the multi index branch of SourceNode.__init__, parts = expression.split(",")
SourceNode_multi(expr, parts) ==
    IF \E k \in 1..Len(parts) : ~int_ok(parts[k]) THEN SourceRaised
    ELSE SourceMade(expr, "ARRAY", "ARRAY_MULTI_INDEX_SELECT", <<>>, 0,
                    [k \in 1..Len(parts) |-> SliceInt(int(parts[k]))])

\* SourceNode.__init__ for op_type ARRAY; inner is the expression without its brackets
SourceNode_array(expr, inner) ==
    IF contains(inner, ":") /\ contains(inner, ",") THEN SourceRaised
    ELSE IF contains(inner, ":") THEN SourceNode_slice(expr, split(inner, ":"))
    ELSE IF contains(inner, ",") THEN SourceNode_multi(expr, split(inner, ","))
    ELSE IF is_substring(inner, Append(digits, "*")) THEN
        IF is_substring(inner, digits) /\ inner # <<>>
        THEN SourceMade(expr, "ARRAY", "ARRAY_INDEX_SELECT", <<>>, int(inner), <<>>)
        ELSE SourceMade(expr, "ARRAY", "ARRAY_FULL_SELECT", inner, 0, <<>>)
    ELSE SourceMade(expr, "ARRAY", "CHILD_OBJ_SELECT", inner, 0, <<>>)

\* SourceNode.__init__: [exc, source]
SourceNode(expr, op_type) ==
    IF op_type # "ARRAY" THEN SourceMade(expr, op_type, "CHILD_OBJ_SELECT", expr, 0, <<>>)
    ELSE SourceNode_array(expr, removeprefix(removesuffix(expr, RSB), LSB))

----------------------------------------------------------------------------
(* ExpressionNode construction *)

clean_expression(expr) ==
    removeprefix(
        removesuffix(
            removesuffix(
                removesuffix(
                    removesuffix(without_spaces(expr), UP_CARET),
                    Q_MARK),
                UP_CARET),
            RSB),
        LSB)

\* a node; parent and child are its neighbours in the chain that build returns
Node(expr, op_type, optional, default, source) ==
    [expression |-> expr, op_type |-> op_type, optional |-> optional,
     default_ |-> default, source |-> source]

\* raise InvalidSourceExpression(...) while constructing a node
NodeRaised == [exc |-> "InvalidSourceExpression",
               node |-> Node(<<>>, "NULL", FALSE, None, NoSource)]

\* self.optional with the default left out of account
initial_optional_from_suffix(cleaned, default) == endswith(cleaned, Q_MARK)

\* self.optional = True if default is not NonExistent else expression.endswith("?")
initial_optional(cleaned, default) ==
    IF default # NonExistent THEN TRUE ELSE endswith(cleaned, Q_MARK)

\* the rest of ExpressionNode.__init__ once its SourceNode src is constructed
ExpressionNode_source(cleaned, op_type, default, src) ==
    IF src.exc # "" THEN NodeRaised
    ELSE [exc |-> "",
          node |-> Node(cleaned, op_type, initial_optional(cleaned, default), default,
                        src.source)]

\* ExpressionNode.__init__ after expression = clean_expression(expression)
ExpressionNode_cleaned(cleaned, op_type, default) ==
    IF cleaned = <<>> THEN NodeRaised
    ELSE ExpressionNode_source(cleaned, op_type, default, SourceNode(cleaned, op_type))

\* ExpressionNode.__init__ for a string expression: [exc, node]
ExpressionNode(expr, op_type, default) ==
    ExpressionNode_cleaned(clean_expression(expr), op_type, default)

\* ExpressionNode.default (the property) with the optional flag left out of account
ExpressionNode_default_raw(node) == node.default_

\* ExpressionNode.default (the property)
ExpressionNode_default(node) ==
    IF node.optional
    THEN IF node.default_ = NonExistent \/ node.default_ = Empty
         THEN None ELSE node.default_
    ELSE node.default_

----------------------------------------------------------------------------
(* ExpressionNode.build *)

\* the locals of build between two iterations of its while loop
BuildState(nodes, start, in_brackets, br_margin, exc) ==
    [nodes |-> nodes, start |-> start, in_brackets |-> in_brackets,
     br_margin |-> br_margin, exc |-> exc]

\* raise InvalidSourceExpression(...) in build
build_raise(st) == [st EXCEPT !.exc = "InvalidSourceExpression"]

\* build_end with the final character of the expression left out of the last segment
build_end_dropping_last(expr, index) == index

\* `end` of build: the final character of the expression belongs to the last segment
build_end(expr, index) == IF index = Len(expr) - 1 THEN index + 1 ELSE index

\* current.optional = True, current being the last node built
set_optional(nodes) ==
    IF nodes = <<>> THEN nodes
    ELSE [nodes EXCEPT ![Len(nodes)].optional = TRUE]

\* current.source.unique_array = True whatever the node is
set_unique_unchecked(st) ==
    IF st.nodes = <<>> THEN st
    ELSE [st EXCEPT !.nodes[Len(st.nodes)].source.unique_array = TRUE]

\* current.source.unique_array = True, or the error for a node that is no array selector
set_unique(st) ==
    IF st.nodes = <<>> THEN st
    ELSE IF st.nodes[Len(st.nodes)].op_type # "ARRAY" THEN build_raise(st)
    ELSE [st EXCEPT !.nodes[Len(st.nodes)].source.unique_array = TRUE]

\* the if/elif chain of build on the character at index; st holds the nodes built so
\* far and start = index + 1
build_char(expr, st, index) ==
    IF expr[index + 1] = LSB THEN
        IF st.in_brackets THEN build_raise(st)
        ELSE [st EXCEPT !.in_brackets = TRUE, !.br_margin = st.br_margin + 1]
    ELSE IF expr[index + 1] = RSB THEN
        IF ~st.in_brackets THEN build_raise(st)
        ELSE [st EXCEPT !.in_brackets = FALSE, !.br_margin = st.br_margin - 1]
    ELSE IF expr[index + 1] = Q_MARK THEN [st EXCEPT !.nodes = set_optional(st.nodes)]
    ELSE IF expr[index + 1] = UP_CARET THEN set_unique(st)
    ELSE IF index < Len(expr) - 2 /\ expr[index + 2] = "[" THEN build_raise(st)
    ELSE st

\* the node made for a segment is linked behind current, or its error is raised
build_link(expr, st, index, made) ==
    IF made.exc # "" THEN [st EXCEPT !.exc = made.exc]
    ELSE build_char(expr, [st EXCEPT !.nodes = Append(st.nodes, made.node),
                                     !.start = index + 1],
                    index)

\* the body of `if <separator, unary operator or last character>` for the segment
\* sub_expression
build_segment(expr, default, st, index, sub_expression) ==
    IF sub_expression # <<>>
    THEN build_link(expr, st, index,
                    ExpressionNode(sub_expression,
                                   IF st.in_brackets THEN "ARRAY" ELSE "OBJ", default))
    ELSE build_char(expr, [st EXCEPT !.start = index + 1], index)

\* one iteration of the while loop of build, at 0-based position index
build_step(expr, default, st, index) ==
    IF ~(\/ expr[index + 1] \in seperator_tokens
         \/ expr[index + 1] \in unr_operators
         \/ index = Len(expr) - 1)
    THEN st
    ELSE build_segment(expr, default, st, index,
                       clean_expression(SubSeq(expr, st.start + 1, build_end(expr, index))))

RECURSIVE build_loop(_, _, _, _)
\* the while loop of build from position index on
build_loop(expr, default, st, index) ==
    IF index >= Len(expr) \/ st.exc # "" THEN st
    ELSE build_loop(expr, default, build_step(expr, default, st, index), index + 1)

\* the end of build with the check of br_margin left out
build_return_unchecked(st) ==
    IF st.exc # "" THEN [exc |-> st.exc, nodes |-> <<>>]
    ELSE [exc |-> "", nodes |-> st.nodes]

\* the end of build: the check of br_margin and `return root`
build_return(st) ==
    IF st.exc # "" THEN [exc |-> st.exc, nodes |-> <<>>]
    ELSE IF st.br_margin > 0 THEN [exc |-> "InvalidSourceExpression", nodes |-> <<>>]
    ELSE [exc |-> "", nodes |-> st.nodes]

\* ExpressionNode.build: [exc, nodes]; nodes = <<>> is the return value None
build(expr, default) ==
    build_return(build_loop(expr, default, BuildState(<<>>, 0, FALSE, 0, ""), 0))

----------------------------------------------------------------------------
(* Evaluation: what a call did *)

\* a call returned val, or raised the exception class exc; visited lists the
\* nodes (positions in the chain) whose get ran, in order
Returned(val, visited) == [exc |-> "", val |-> val, visited |-> visited]
Raised(exc, visited) == [exc |-> exc, val |-> None, visited |-> visited]

\* is_iterable with the test for a Mapping in its place
is_mapping(v) == v.kind = "map"

\* utils.is_iterable: isinstance(obj, Iterable)
is_iterable(v) == v.kind \in {"list", "map", "str"}

has_key(fields, key) == \E k \in 1..Len(fields) : fields[k].k = key

lookup(fields, key) == fields[CHOOSE k \in 1..Len(fields) : fields[k].k = key].v

\* len(v) for the values that have one
len(v) == IF v.kind = "list" THEN Len(v.items)
          ELSE IF v.kind = "str" THEN Len(v.s)
          ELSE Len(v.fields)

\* the elements `for x in v` yields
elements(v) ==
    IF v.kind = "list" THEN v.items
    ELSE IF v.kind = "str" THEN [k \in 1..Len(v.s) |-> StrV(<<v.s[k]>>)]
    ELSE [k \in 1..Len(v.fields) |-> StrV(v.fields[k].k)]

\* v[i] for a list or a str and an integer i: [found, val]; not found is IndexError
index_select(v, i) ==
    IF i < 0 - len(v) \/ i >= len(v) THEN [found |-> FALSE, val |-> None]
    ELSE [found |-> TRUE, val |-> elements(v)[(IF i < 0 THEN i + len(v) ELSE i) + 1]]

RECURSIVE slice_positions(_, _, _)
\* the 0-based positions start, start+step, ... before stop (after it, for step < 0)
slice_positions(start, stop, step) ==
    IF (step > 0 /\ start >= stop) \/ (step < 0 /\ start <= stop) THEN <<>>
    ELSE <<start>> \o slice_positions(start + step, stop, step)

\* one bound of slice(start, end, step).indices(n), step # 0
slice_clamp(shifted, n, step) ==
    IF step > 0
    THEN IF shifted < 0 THEN 0 ELSE IF shifted > n THEN n ELSE shifted
    ELSE IF shifted < 0 THEN 0 - 1 ELSE IF shifted >= n THEN n - 1 ELSE shifted

slice_bound(b, n, step) == slice_clamp(IF b < 0 THEN b + n ELSE b, n, step)

\* the elements of a list or a str at the positions ps
take(v, ps) ==
    IF v.kind = "list" THEN ListV([k \in 1..Len(ps) |-> v.items[ps[k] + 1]])
    ELSE StrV([k \in 1..Len(ps) |-> v.s[ps[k] + 1]])

\* v[start:end:step] with the step ignored
slice_select_unit_step(v, start, end, step) ==
    take(v, slice_positions(slice_bound(start, len(v), 1), slice_bound(end, len(v), 1), 1))

\* v[start:end:step] for a list or a str, step # 0
slice_select(v, start, end, step) ==
    take(v, slice_positions(slice_bound(start, len(v), step),
                            slice_bound(end, len(v), step), step))

----------------------------------------------------------------------------
(* ExpressionNode.get_node_value and ExpressionNode.get *)

\* __validate that never raises
validate_anything(value) == [exc |-> "", val |-> value]

\* ExpressionNode.__validate: [exc, val]
validate(value) ==
    IF value = NonExistent THEN [exc |-> "ValueDoesNotExist", val |-> None]
    ELSE [exc |-> "", val |-> value]

\* the try/except IndexError of get_node_value; r is instance[getter]
index_or_default(node, r) ==
    IF r.found THEN r.val ELSE ExpressionNode_default(node)

\* get_node_value with the CHILD_OBJ_SELECT branch left out
get_node_value_index_only(node, instance) ==
    IF node.source.source_op_type = "ARRAY_INDEX_SELECT" THEN
        IF is_iterable(instance)
        THEN IF instance.kind = "map" THEN [exc |-> "KeyError", val |-> None]
             ELSE validate(index_or_default(node, index_select(instance, node.source.gi)))
        ELSE validate(ExpressionNode_default(node))
    ELSE [exc |-> "InvalidSourceExpression", val |-> None]

\* ExpressionNode.get_node_value: [exc, val]
get_node_value(node, instance) ==
    IF node.source.source_op_type = "ARRAY_INDEX_SELECT" THEN
        IF is_iterable(instance)
        THEN IF instance.kind = "map" THEN [exc |-> "KeyError", val |-> None]
             ELSE validate(index_or_default(node, index_select(instance, node.source.gi)))
        ELSE validate(ExpressionNode_default(node))
    ELSE IF node.source.source_op_type = "CHILD_OBJ_SELECT" THEN
        IF instance.kind = "map"
        THEN \* instance.get(getter, default)
             IF has_key(instance.fields, node.source.gs)
             THEN validate(lookup(instance.fields, node.source.gs))
             ELSE validate(ExpressionNode_default(node))
        ELSE \* getattr(instance, getter); the attributes of the data are not callable
             IF instance.kind = "obj" /\ has_key(instance.fields, node.source.gs)
             THEN validate(lookup(instance.fields, node.source.gs))
             ELSE validate(ExpressionNode_default(node))
    ELSE [exc |-> "InvalidSourceExpression", val |-> None]

\* structure.EArray
EArray(unique, array) == [unique |-> unique, array |-> array]

\* EArray.insert
EArray_insert(r_val, elem) == [r_val EXCEPT !.array = Append(r_val.array, elem)]

\* EArray.__iadd__ with a list on the right
EArray_iadd(r_val, other) == [r_val EXCEPT !.array = r_val.array \o other.items]

\* the body of the for loop of get: r_val after one child value
collect(r_val, child_val) ==
    IF child_val.kind # "list" THEN EArray_insert(r_val, child_val)
    ELSE EArray_iadd(r_val, child_val)

RECURSIVE get(_, _, _, _)
RECURSIVE get_each(_, _, _, _, _, _)

\* one iteration of `for each_instance in instance`, child_val being what
\* self.child.get(each_instance, root_instance) did
get_each_step(nodes, k, elems, idx, r_val, child_val) ==
    IF child_val.exc # "" THEN child_val
    ELSE get_each(nodes, k, elems, idx + 1, collect(r_val, child_val.val),
                  child_val.visited)

\* the `for each_instance in instance` loop of get, from element idx on;
\* the loop falls off the end of get, which therefore returns None
get_each(nodes, k, elems, idx, r_val, visited) ==
    IF idx > Len(elems) THEN Returned(None, visited)
    ELSE get_each_step(nodes, k, elems, idx, r_val,
                       get(nodes, k + 1, elems[idx], visited))

\* get after `instance = self.get_node_value(instance)` did r
get_child(nodes, k, r, visited) ==
    IF r.exc # "" THEN Raised(r.exc, visited)
    ELSE IF k < Len(nodes) /\ r.val # None THEN get(nodes, k + 1, r.val, visited)
    ELSE Returned(r.val, visited)

\* `if self.child: ... else: return instance` of get, on the selected instance
get_selected(nodes, k, selected, visited) ==
    IF k < Len(nodes) THEN
        IF ~is_iterable(selected) THEN Raised("InvalidDataType", visited)
        ELSE get_each(nodes, k, elements(selected), 1,
                      EArray(nodes[k].source.unique_array, <<>>), visited)
    ELSE Returned(selected, visited)

\* the try block `instance = instance[start:end:step]` of get
get_sliced(nodes, k, instance, start, end, step, visited) ==
    IF ~(instance.kind \in {"list", "str"} /\ step # 0)
    THEN Raised("InvalidDataType", visited)
    ELSE get_selected(nodes, k, slice_select(instance, start, end, step), visited)

\* the ARRAY_SLICE_SELECT branch of get; getter is [start, end, step]
get_slice(nodes, k, instance, getter, visited) ==
    IF getter[2].none /\ instance.kind \notin {"list", "str", "map"}
    THEN \* len(instance)
         Raised("TypeError", visited)
    ELSE get_sliced(nodes, k, instance,
                    IF getter[1].none THEN 0 ELSE getter[1].val,
                    IF getter[2].none THEN len(instance) ELSE getter[2].val,
                    IF getter[3].none THEN 1 ELSE getter[3].val,
                    visited)

\* the else branch of get: an array selector
get_array(nodes, k, instance, visited) ==
    IF k = 1
    THEN \* getter_parent_str reads self.parent.source of the parent None
         Raised("AttributeError", visited)
    ELSE IF nodes[k].source.source_op_type = "ARRAY_SLICE_SELECT"
    THEN get_slice(nodes, k, instance, nodes[k].source.gl, visited)
    ELSE get_selected(nodes, k, instance, visited)

\* ExpressionNode.get on node k of the chain; a node that build made has a source
get(nodes, k, instance, visited) ==
    IF nodes[k].source.source_op_type \notin array_op_type
    THEN get_child(nodes, k, get_node_value(nodes[k], instance), Append(visited, k))
    ELSE get_array(nodes, k, instance, Append(visited, k))

\* root.get(data) as a caller writes it; build returned None when nodes = <<>>
root_get(nodes, obj) ==
    IF nodes = <<>> THEN Raised("AttributeError", <<>>)
    ELSE get(nodes, 1, obj, <<>>)

----------------------------------------------------------------------------
(* The combinator class E *)

\* the entries of E._expression_tree: (TokenType.NODE, chain) or (TokenType.OPERATOR, char)
NodeToken(nodes) == [type |-> "NODE", node |-> nodes, op |-> ""]
OperatorToken(op) == [type |-> "OPERATOR", node |-> <<>>, op |-> op]

ParseState(etree, start, exc) == [tree |-> etree, start |-> start, exc |-> exc]

\* `if len(self._expression_tree) >= 1 and is_operator: append the operator`
E_parse_operator(expr, etree, index) ==
    IF Len(etree) >= 1 /\ expr[index + 1] \in operators
    THEN ParseState(Append(etree, OperatorToken(expr[index + 1])), index + 1, "")
    ELSE ParseState(etree, index + 1, "")

\* the node built from a sub-expression is appended, or the error of build raised
E_parse_node(expr, st, index, built) ==
    IF built.exc # "" THEN ParseState(st.tree, st.start, built.exc)
    ELSE E_parse_operator(expr, Append(st.tree, NodeToken(built.nodes)), index)

\* the body of `if is_operator or index == length - 1`
E_parse_sub(expr, default, st, index, sub_expression) ==
    IF sub_expression # <<>>
    THEN E_parse_node(expr, st, index, build(sub_expression, default))
    ELSE E_parse_operator(expr, st.tree, index)

\* one iteration of the while loop of E.parse, at 0-based position index
E_parse_step(expr, default, st, index) ==
    IF ~(expr[index + 1] \in operators \/ index = Len(expr) - 1) THEN st
    ELSE E_parse_sub(expr, default, st, index,
                     SubSeq(expr, st.start + 1,
                            IF index = Len(expr) - 1 THEN index + 1 ELSE index))

RECURSIVE E_parse_loop(_, _, _, _)
E_parse_loop(expr, default, st, index) ==
    IF index >= Len(expr) \/ st.exc # "" THEN st
    ELSE E_parse_loop(expr, default, E_parse_step(expr, default, st, index), index + 1)

E_parse_return(st) == [exc |-> st.exc, tree |-> IF st.exc = "" THEN st.tree ELSE <<>>]

\* E.parse: [exc, tree]
E_parse(expr, default) ==
    E_parse_return(E_parse_loop(expr, default, ParseState(<<>>, 0, ""), 0))

\* E.__init__: [exc, tree]
E_init(expr, default) ==
    IF expr = <<>> /\ default = NonExistent
    THEN [exc |-> "AssertionError", tree |-> <<>>]
    ELSE E_parse(expr, default)

\* x + y with the operands taken in the other order
py_add_swapped(x, y) ==
    IF x.kind = "str" /\ y.kind = "str" THEN [exc |-> "", val |-> StrV(y.s \o x.s)]
    ELSE IF x.kind = "list" /\ y.kind = "list"
         THEN [exc |-> "", val |-> ListV(y.items \o x.items)]
    ELSE IF x.kind = "int" /\ y.kind = "int" THEN [exc |-> "", val |-> IntV(x.i + y.i)]
    ELSE [exc |-> "TypeError", val |-> None]

\* Python's x + y on the values of the model: [exc, val]
py_add(x, y) ==
    IF x.kind = "str" /\ y.kind = "str" THEN [exc |-> "", val |-> StrV(x.s \o y.s)]
    ELSE IF x.kind = "list" /\ y.kind = "list"
         THEN [exc |-> "", val |-> ListV(x.items \o y.items)]
    ELSE IF x.kind = "int" /\ y.kind = "int" THEN [exc |-> "", val |-> IntV(x.i + y.i)]
    ELSE [exc |-> "TypeError", val |-> None]

\* `token == Token.PIPE and value is not Empty`
pipe_breaks(token, value) == token = PIPE /\ value # Empty

RECURSIVE E_get_loop(_, _, _, _, _, _)

\* `value = value + token.get(obj)` once both operands are there; sum is their sum
E_get_added(etree, obj, idx, sum, next_operation, visited) ==
    IF sum.exc # "" THEN Raised(sum.exc, visited)
    ELSE E_get_loop(etree, obj, idx + 1, sum.val, next_operation, visited)

\* the NODE branch of the loop of E.get; got is what token.get(obj) did
E_get_node(etree, obj, idx, value, next_operation, visited, got) ==
    IF got.exc # "" THEN Raised(got.exc, visited)
    ELSE IF next_operation = PLUS
    THEN E_get_added(etree, obj, idx, py_add(value, got.val), next_operation, visited)
    ELSE E_get_loop(etree, obj, idx + 1, got.val, next_operation, visited)

\* the for loop of E.get from token idx on; visited lists the NODE tokens evaluated
E_get_loop(etree, obj, idx, value, next_operation, visited) ==
    IF idx > Len(etree) THEN Returned(value, visited)
    ELSE IF etree[idx].type = "NODE"
    THEN E_get_node(etree, obj, idx, value, next_operation, Append(visited, idx),
                    root_get(etree[idx].node, obj))
    ELSE IF pipe_breaks(etree[idx].op, value) THEN Returned(value, visited)
    ELSE IF etree[idx].op = PLUS
    THEN E_get_loop(etree, obj, idx + 1, value, PLUS, visited)
    ELSE E_get_loop(etree, obj, idx + 1, value, next_operation, visited)

\* E.get with None for an empty expression tree
E_get_without_default(etree, default, obj) ==
    IF etree = <<>> THEN Returned(None, <<>>)
    ELSE E_get_loop(etree, obj, 1, Empty, "", <<>>)

\* E.get
E_get(etree, default, obj) ==
    IF etree = <<>>
    THEN IF default = NonExistent THEN Raised("InvalidDataType", <<>>)
         ELSE Returned(default, <<>>)
    ELSE E_get_loop(etree, obj, 1, Empty, "", <<>>)

\* an __add__ that leaves self._expression_tree as it was
E_add_leaving_self(self_tree, other_tree) == self_tree

\* E.__add__ and E.__or__: the new value of self._expression_tree
E_add(self_tree, other_tree) == self_tree \o <<OperatorToken(PLUS)>> \o other_tree

E_or(self_tree, other_tree) == self_tree \o <<OperatorToken(PIPE)>> \o other_tree

----------------------------------------------------------------------------
(* Numbers of the arithmetic parser (typecrate/tmath.py) *)

\* A Python number as the fraction n/d in lowest terms with d > 0: an int or a float is
\* the rational it stands for, so 6/2 = 3.0 and 3 are one value (Python's == agrees).
\* Float rounding is not represented; d = 0 stands for a float that is no fraction.
Frac(n, d) == [n |-> n, d |-> d]
Unrepresented == Frac(0, 0)
Whole(n) == Frac(n, 1)

abs(a) == IF a < 0 THEN 0 - a ELSE a

RECURSIVE gcd(_, _)
gcd(a, b) == IF b = 0 THEN a ELSE gcd(b, a % b)

\* the fraction n/d for d > 0 in lowest terms
lowest(n, d, g) == Frac(n \div g, d \div g)

\* the fraction n/d for d # 0
fraction(n, d) ==
    IF d < 0 THEN lowest(0 - n, 0 - d, gcd(abs(n), abs(d)))
    ELSE lowest(n, d, gcd(abs(n), abs(d)))

is_zero(x) == x.d # 0 /\ x.n = 0

\* a + b, a - b, a * b, -a
num_add(a, b) ==
    IF a.d = 0 \/ b.d = 0 THEN Unrepresented
    ELSE fraction(a.n * b.d + b.n * a.d, a.d * b.d)

num_neg(a) == Frac(0 - a.n, a.d)

num_sub(a, b) == num_add(a, num_neg(b))

num_mul(a, b) ==
    IF a.d = 0 \/ b.d = 0 THEN Unrepresented
    ELSE fraction(a.n * b.n, a.d * b.d)

\* a / b for b # 0
num_div(a, b) ==
    IF a.d = 0 \/ b.d = 0 THEN Unrepresented
    ELSE fraction(a.n * b.d, a.d * b.n)

\* floor of the fraction n/d, d > 0
floor(x) == x.n \div x.d

\* a % b for b # 0: a - b * floor(a / b), the sign of the result is the sign of b
num_mod(a, b) ==
    IF a.d = 0 \/ b.d = 0 THEN Unrepresented
    ELSE num_sub(a, num_mul(b, Whole(floor(num_div(a, b)))))

----------------------------------------------------------------------------
(* MathParser.tokenize *)

\* the tokens (type, value): num is the value of a NUMBER, s of any other token
MTok(type, num, s) == [type |-> type, num |-> num, s |-> s]
NumberToken(x) == MTok("NUMBER", x, <<>>)
MOperatorToken(ch) == MTok("OPERATOR", Unrepresented, <<ch>>)
FunctionToken(name) == MTok("FUNCTION", Unrepresented, name)
VariableToken(name) == MTok("VARIABLE", Unrepresented, name)
EOFToken == MTok("EOF", Unrepresented, <<>>)

\* MOperator
ADD == "+"
SUBTRACT == "-"
MULTIPLY == "*"
DIVIDE == "/"
MODULO == "%"
LPAREN == "("
RPAREN == ")"
MOperators == {ADD, SUBTRACT, MULTIPLY, DIVIDE, MODULO, LPAREN, RPAREN}

\* string.ascii_letters + "@{}" as far as the inputs spell names
NameChars == {"x", "y", "z", "s", "q", "r", "t", "@", "{", "}"}

\* the keys of self.functions
functions == {<<"s", "q", "r", "t">>, <<"s", "i", "n">>, <<"c", "o", "s">>,
              <<"t", "a", "n">>, <<"l", "o", "g">>, <<"e", "x", "p">>}

RECURSIVE run_end(_, _, _)
\* the 0-based position after the run of characters of S that starts at i
run_end(expr, i, S) ==
    IF i < Len(expr) /\ expr[i + 1] \in S THEN run_end(expr, i + 1, S) ELSE i

RECURSIVE count(_, _)
count(s, ch) ==
    IF s = <<>> THEN 0
    ELSE (IF Head(s) = ch THEN 1 ELSE 0) + count(Tail(s), ch)

RECURSIVE pow10(_)
pow10(k) == IF k = 0 THEN 1 ELSE 10 * pow10(k - 1)

\* the digits of s, its '.' left out
RECURSIVE only_digits(_)
only_digits(s) ==
    IF s = <<>> THEN <<>>
    ELSE IF Head(s) = "." THEN only_digits(Tail(s))
    ELSE <<Head(s)>> \o only_digits(Tail(s))

\* the number of characters of s after its '.'
decimals(s) == Len(s) - (CHOOSE k \in 1..Len(s) : s[k] = ".")

\* float(num_str) if "." in num_str else int(num_str): [exc, num]
number(num_str) ==
    IF ~contains(num_str, ".") THEN [exc |-> "", num |-> Whole(digits_value(num_str))]
    ELSE IF count(num_str, ".") > 1 THEN [exc |-> "ValueError", num |-> Unrepresented]
    ELSE [exc |-> "",
          num |-> fraction(digits_value(only_digits(num_str)), pow10(decimals(num_str)))]

\* the tokens so far, or the error raised
TokState(tokens, exc, msg) == [tokens |-> tokens, exc |-> exc, msg |-> msg]

RECURSIVE tokenize_loop(_, _, _)

\* a numeric literal has been scanned: its token is appended, or float() raises
tokenize_number(expr, i, tokens, parsed) ==
    IF parsed.exc # "" THEN TokState(tokens, "ValueError", "float")
    ELSE tokenize_loop(expr, i, Append(tokens, NumberToken(parsed.num)))

\* a name has been scanned: a FUNCTION if it is a key of self.functions, else a VARIABLE
tokenize_name(expr, i, tokens, name) ==
    IF name \in functions THEN tokenize_loop(expr, i, Append(tokens, FunctionToken(name)))
    ELSE tokenize_loop(expr, i, Append(tokens, VariableToken(name)))

\* the while loop of tokenize from the 0-based position i on
tokenize_loop(expr, i, tokens) ==
    IF i >= Len(expr) THEN TokState(Append(tokens, EOFToken), "", "")
    ELSE IF is_digit(expr[i + 1])
            \/ (expr[i + 1] = "." /\ i + 1 < Len(expr) /\ is_digit(expr[i + 2]))
    THEN tokenize_number(expr, run_end(expr, i, {"0", "1", "2", "3", "4", "5", "6", "7",
                                                 "8", "9", "."}),
                         tokens,
                         number(SubSeq(expr, i + 1,
                                       run_end(expr, i, {"0", "1", "2", "3", "4", "5",
                                                         "6", "7", "8", "9", "."}))))
    ELSE IF expr[i + 1] \in MOperators
    THEN tokenize_loop(expr, i + 1, Append(tokens, MOperatorToken(expr[i + 1])))
    ELSE IF expr[i + 1] \in NameChars
    THEN tokenize_name(expr, run_end(expr, i, NameChars), tokens,
                       SubSeq(expr, i + 1, run_end(expr, i, NameChars)))
    ELSE IF expr[i + 1] = " " THEN tokenize_loop(expr, i + 1, tokens)
    ELSE TokState(tokens, "ValueError", "Unknown character")

\* MathParser.__init__: self.tokens, self.index, self.paren_count
MathParser_init == [tokens |-> <<>>, index |-> 0, paren_count |-> 0]

\* tokenize keeping what the instance holds
tokenize_keeping(self) == self

\* the first three statements of tokenize: the token list, the index and the
\* parentheses count of the instance are cleared
tokenize_reset(self) == [tokens |-> <<>>, index |-> 0, paren_count |-> 0]

\* MathParser.tokenize: [tokens, exc, msg]; tokens is self.tokens afterwards
tokenize(self, expr) ==
    IF without_spaces(expr) = <<>>
    THEN TokState(tokenize_reset(self).tokens, "ValueError", "Empty input")
    ELSE tokenize_loop(expr, 0, tokenize_reset(self).tokens)

----------------------------------------------------------------------------
(* MathParser.consume, expr, term, factor *)

\* what a parsing method did: the value returned or the exception raised (with the
\* text its message starts with), and self.index afterwards
MRes(exc, msg, val, index) == [exc |-> exc, msg |-> msg, val |-> val, index |-> index]
MRaised(exc, msg, index) == MRes(exc, msg, Unrepresented, index)
MReturned(val, index) == MRes("", "", val, index)

\* what self.tokens[self.index] reads past the end of the list
OutOfRange == MTok("IndexError", Unrepresented, <<>>)

\* self.tokens[self.index]
token_at(tokens, index) ==
    IF index < Len(tokens) THEN tokens[index + 1] ELSE OutOfRange

\* consume taking the current token whatever its type
consume_any(tokens, index, expected_type) ==
    IF token_at(tokens, index) = OutOfRange
    THEN MRaised("IndexError", "list index out of range", index)
    ELSE MRes("", "", token_at(tokens, index), index + 1)

\* MathParser.consume: raises unless the current token has the expected type
consume(tokens, index, expected_type) ==
    IF token_at(tokens, index) = OutOfRange
    THEN MRaised("IndexError", "list index out of range", index)
    ELSE IF token_at(tokens, index).type = expected_type
    THEN MRes("", "", token_at(tokens, index), index + 1)
    ELSE MRaised("ValueError", "Expected", index)

is_operator(tok, ops) == tok.type = "OPERATOR" /\ tok.s[1] \in ops

\* result op t of expr, the operands in the other order
expr_apply_swapped(op, result, t) ==
    IF op = ADD THEN num_add(t, result) ELSE num_sub(t, result)

\* result += term or result -= term
expr_apply(op, result, t) ==
    IF op = ADD THEN num_add(result, t) ELSE num_sub(result, t)

\* self.functions[func_name](arg) where the value is a fraction
math_function(name, arg) ==
    IF name \in {<<"s", "i", "n">>, <<"t", "a", "n">>} /\ is_zero(arg) THEN Whole(0)
    ELSE IF name \in {<<"c", "o", "s">>, <<"e", "x", "p">>} /\ is_zero(arg) THEN Whole(1)
    ELSE IF name = <<"l", "o", "g">> /\ arg = Whole(1) THEN Whole(0)
    ELSE IF name = <<"s", "q", "r", "t">> /\ arg.d = 1
            /\ \E r \in 0..abs(arg.n) : r * r = arg.n
    THEN Whole(CHOOSE r \in 0..abs(arg.n) : r * r = arg.n)
    ELSE Unrepresented

RECURSIVE expr(_, _, _)
RECURSIVE expr_loop(_, _, _)
RECURSIVE term(_, _, _)
RECURSIVE term_loop(_, _, _)
RECURSIVE factor(_, _, _)

\* the right operand t of '+' or '-' has been evaluated
expr_rhs(tokens, variables, op, r, t) ==
    IF t.exc # "" THEN t
    ELSE expr_loop(tokens, variables, MReturned(expr_apply(op, r.val, t.val), t.index))

\* the while loop of expr; r holds result and self.index
expr_loop(tokens, variables, r) ==
    IF r.exc # "" THEN r
    ELSE IF token_at(tokens, r.index) = OutOfRange
    THEN MRaised("IndexError", "list index out of range", r.index)
    ELSE IF is_operator(token_at(tokens, r.index), {ADD, SUBTRACT})
    THEN expr_rhs(tokens, variables, token_at(tokens, r.index).s[1], r,
                  term(tokens, r.index + 1, variables))
    ELSE r

\* MathParser.expr
expr(tokens, index, variables) == expr_loop(tokens, variables, term(tokens, index, variables))

\* the right operand f of '*', '/' or '%' has been evaluated
term_rhs(tokens, variables, op, r, f) ==
    IF f.exc # "" THEN f
    ELSE IF op = MULTIPLY
    THEN term_loop(tokens, variables, MReturned(num_mul(r.val, f.val), f.index))
    ELSE IF op = DIVIDE
    THEN IF is_zero(f.val) THEN MRaised("ValueError", "Division by zero", f.index)
         ELSE term_loop(tokens, variables, MReturned(num_div(r.val, f.val), f.index))
    ELSE \* result %= 0 is Python's ZeroDivisionError
         IF is_zero(f.val) THEN MRaised("ZeroDivisionError", "modulo by zero", f.index)
         ELSE term_loop(tokens, variables, MReturned(num_mod(r.val, f.val), f.index))

\* the while loop of term; r holds result and self.index
term_loop(tokens, variables, r) ==
    IF r.exc # "" THEN r
    ELSE IF token_at(tokens, r.index) = OutOfRange
    THEN MRaised("IndexError", "list index out of range", r.index)
    ELSE IF is_operator(token_at(tokens, r.index), {MULTIPLY, DIVIDE, MODULO})
    THEN term_rhs(tokens, variables, token_at(tokens, r.index).s[1], r,
                  factor(tokens, r.index + 1, variables))
    ELSE r

\* MathParser.term
term(tokens, index, variables) ==
    term_loop(tokens, variables, factor(tokens, index, variables))

\* the closing self.consume(MToken.OPERATOR) after an inner expression e: any operator
\* token is taken for the ')'
factor_close(tokens, e, closed) ==
    IF closed.exc # "" THEN closed ELSE MReturned(e.val, closed.index)

\* '(' expr ')' once the inner expression e has been evaluated
factor_inner(tokens, e) ==
    IF e.exc # "" THEN e
    ELSE factor_close(tokens, e, consume(tokens, e.index, "OPERATOR"))

\* a unary '+' or '-' once its factor f has been evaluated
factor_signed(op, f) ==
    IF f.exc # "" THEN f
    ELSE IF op = ADD THEN f
    ELSE MReturned(num_neg(f.val), f.index)

\* FUNCTION '(' expr ')' once the argument e has been evaluated and the last token taken
factor_called(name, e, closed) ==
    IF closed.exc # "" THEN closed
    ELSE MReturned(math_function(name, e.val), closed.index)

factor_argument(tokens, name, e) ==
    IF e.exc # "" THEN e
    ELSE factor_called(name, e, consume(tokens, e.index, "OPERATOR"))

\* the FUNCTION branch of factor after the name; opened is what consume(OPERATOR) did
factor_function(tokens, variables, name, opened) ==
    IF opened.exc # "" THEN opened
    ELSE factor_argument(tokens, name, expr(tokens, opened.index, variables))

\* MathParser.factor; variables is a sequence of [k, v] as the fields of a dict
factor(tokens, index, variables) ==
    IF token_at(tokens, index) = OutOfRange
    THEN MRaised("IndexError", "list index out of range", index)
    ELSE IF token_at(tokens, index).type = "FUNCTION"
    THEN factor_function(tokens, variables, token_at(tokens, index).s,
                         consume(tokens, index + 1, "OPERATOR"))
    ELSE IF is_operator(token_at(tokens, index), {ADD, SUBTRACT})
    THEN factor_signed(token_at(tokens, index).s[1], factor(tokens, index + 1, variables))
    ELSE IF token_at(tokens, index).type = "NUMBER"
    THEN MReturned(token_at(tokens, index).num, index + 1)
    ELSE IF token_at(tokens, index).type = "VARIABLE"
    THEN IF has_key(variables, token_at(tokens, index).s)
         THEN MReturned(lookup(variables, token_at(tokens, index).s), index + 1)
         ELSE MRaised("ValueError", "Unknown variable", index + 1)
    ELSE IF is_operator(token_at(tokens, index), {LPAREN})
    THEN factor_inner(tokens, expr(tokens, index + 1, variables))
    ELSE MRaised("ValueError", "Unexpected token", index)

\* parse after self.tokenize(expression) did t and left self.index at index
parse_tokens(t, index, variables) ==
    IF t.exc # "" THEN MRaised(t.exc, t.msg, index)
    ELSE expr(t.tokens, index, variables)

\* MathParser.parse on the instance self
parse(self, expression_, variables) ==
    parse_tokens(tokenize(self, expression_), tokenize_reset(self).index, variables)

\* the instance after self.parse(expression_, variables)
parser_after(self, expression_, variables) ==
    [tokens |-> tokenize(self, expression_).tokens,
     index |-> parse(self, expression_, variables).index,
     paren_count |-> tokenize_reset(self).paren_count]

----------------------------------------------------------------------------
(* Inputs *)

\* all sequences over S of length at most n
RECURSIVE seqs_upto(_, _)
seqs_upto(S, n) ==
    IF n = 0 THEN {<<>>}
    ELSE LET shorter == seqs_upto(S, n - 1)
         IN shorter \cup {Append(t, x) : t \in shorter, x \in S}

\* all concatenations of one piece of First and at most n - 1 pieces of Rest
RECURSIVE paths_upto(_, _, _)
paths_upto(First, Rest, n) ==
    IF n = 1 THEN First
    ELSE LET shorter == paths_upto(First, Rest, n - 1)
         IN shorter \cup {t \o x : t \in shorter, x \in Rest}

BuildAlphabet == {"a", ".", "[", "]", "?", "^", "*", "0", "1", ":", ","}
IdAlphabet == {"a", "b", "."}

\* strings handed to build alone
BuildExprs == seqs_upto(BuildAlphabet, MaxLen)
IdExprs == seqs_upto(IdAlphabet, MaxIdLen)

\* a[...] with every text over digits, ':', ',' and '.' between the brackets
BracketAlphabet == {"0", ":", ",", "."}
BracketExprs ==
    {<<"a", "[">> \o c \o <<"]">> : c \in seqs_upto(BracketAlphabet, MaxBracketLen)}

\* a[...] with every text over digits, '*' and '-' between the brackets
DigitAlphabet == {"0", "1", "9", "*", "-"}
DigitExprs ==
    {<<"a", "[">> \o c \o <<"]">> : c \in seqs_upto(DigitAlphabet, MaxDigits)}

N_A == StrV(<<"N">>)
BuildDefaults == {NonExistent, None, N_A, Empty, IntV(0)}

\* paths handed to build and then evaluated
FirstPieces == {<<"a">>, <<"b">>, <<"[", "0", "]">>, <<"[", "*", "]">>}
NextPieces ==
    {<<".", "a">>, <<".", "b">>, <<"[", "0", "]">>, <<"[", "1", "]">>, <<"[", "*", "]">>,
     <<"[", "0", ":", "2", "]">>, <<"[", "1", ",", "0", "]">>, <<"?">>, <<"^">>,
     <<".", "b", "?">>}
PiecePaths == paths_upto(FirstPieces, NextPieces, MaxPieces)

\* a[start:end] and a[start:end:step], alone and followed by .b
SliceArgs == {<<>>} \cup {<<digits[n + 1]>> : n \in 0..MaxSliceArg}
SliceBodies ==
    {st \o <<":">> \o en : st \in SliceArgs, en \in SliceArgs}
    \cup {st \o <<":">> \o en \o <<":">> \o sp :
              st \in SliceArgs, en \in SliceArgs, sp \in SliceArgs}
SlicePaths == {<<"a", "[">> \o body \o <<"]">> : body \in SliceBodies}

\* slices with a negative start, end or step
NegativeSlicePaths ==
    {<<"a", "[">> \o body \o <<"]">> :
        body \in {<<":", ":", "-", "1">>, <<":", ":", "-", "2">>,
                  <<"2", ":", "0", ":", "-", "1">>, <<"-", "1", ":">>, <<":", "-", "1">>,
                  <<"-", "2", ":", ":", "-", "1">>, <<"1", ":", ":", "-", "1">>}}

GetExprs == PiecePaths \cup SlicePaths \cup NegativeSlicePaths
\* a default that itself has the key b
D_B == MapV(<<KV(<<"b">>, IntV(1))>>)
GetDefaults == {NonExistent, N_A}
\* the paths built with the default D_B
DefaultPaths ==
    {<<"a">>, <<"a", ".", "b">>, <<"a", ".", "b", ".", "a">>, <<"a", "[", "0", "]">>,
     <<"a", "[", "0", "]", ".", "b">>, <<"b", ".", "a">>}

\* a[-1] and a[-2]
NegativePaths == {<<"a", "[", "-", "1", "]">>, <<"a", "[", "-", "2", "]">>}

KeyA == <<"a">>
KeyB == <<"b">>

\* the data handed to get
IntLists == {ListV(t) : t \in seqs_upto({IntV(1), IntV(2)}, MaxListLen)}
Records ==
    {MapV(<<>>), MapV(<<KV(KeyB, IntV(1))>>), MapV(<<KV(KeyB, IntV(2))>>),
     MapV(<<KV(KeyB, None)>>), MapV(<<KV(KeyB, ListV(<<IntV(1), IntV(2)>>))>>),
     ObjV(<<KV(KeyB, IntV(1))>>)}
ListElems ==
    {MapV(<<KV(KeyB, IntV(1))>>), MapV(<<KV(KeyB, IntV(2))>>), MapV(<<>>), None,
     ListV(<<IntV(1), IntV(2)>>), MapV(<<KV(KeyB, ListV(<<IntV(1), IntV(2)>>))>>)}
RecordLists == {ListV(t) : t \in seqs_upto(ListElems, 2) \ {<<>>}}
Inner == {IntV(1), None, StrV(<<"x", "y">>)} \cup IntLists \cup Records \cup RecordLists
Data ==
    {MapV(<<KV(KeyA, x)>>) : x \in Inner}
    \cup {MapV(<<>>), IntV(1), None, ObjV(<<KV(KeyA, MapV(<<KV(KeyB, IntV(1))>>))>>),
          ListV(<<>>), ListV(<<IntV(1), IntV(2)>>), ListV(<<MapV(<<KV(KeyA, IntV(1))>>)>>)}
    \cup Records

\* the strings and data of the combinator
EPaths == {<<"a", ".", "b">>, <<"a", ".", "c">>, <<"b">>, <<"a", ".", "b", "?">>, <<"c">>}
EOps == {<<"+">>, <<"|">>, <<" ", "|", " ">>}
EExprs == EPaths \cup {<<>>} \cup {p \o o \o q : p \in EPaths, o \in EOps, q \in EPaths}
EExprs2 == EPaths \cup {<<>>}
EDefaults == {NonExistent, N_A, None, Empty}
EDefaults2 == {NonExistent, N_A}
KeyC == <<"c">>
John == StrV(<<"J">>)
Doe == StrV(<<"D">>)
EData ==
    {MapV(<<KV(KeyA, MapV(<<KV(KeyB, John), KV(KeyC, Doe)>>))>>),
     MapV(<<KV(KeyB, John)>>),
     MapV(<<KV(KeyA, MapV(<<KV(KeyB, John)>>)), KV(KeyB, Doe)>>),
     MapV(<<KV(KeyA, MapV(<<KV(KeyB, ListV(<<IntV(1)>>)), KV(KeyC, ListV(<<IntV(2)>>))>>))>>),
     MapV(<<KV(KeyA, MapV(<<KV(KeyB, IntV(1)), KV(KeyC, IntV(2))>>)), KV(KeyC, John)>>),
     MapV(<<KV(KeyA, MapV(<<KV(KeyB, None)>>)), KV(KeyB, Doe), KV(KeyC, None)>>),
     MapV(<<>>)}

----------------------------------------------------------------------------
(* The callers *)

NoOutcome == Returned(None, <<>>)

\* the variables a caller of build alone does not use
IdleE == expression2 = <<>> /\ dflt2 = NonExistent /\ tree = <<>> /\ tree2 = <<>>
         /\ combined = <<>>
IdleGet == data = None /\ outcome = NoOutcome
IdleParser == parser = MathParser_init /\ earlier = <<>>

InitBuild ==
    /\ pc = "start" /\ root = <<>> /\ build_exc = ""
    /\ \/ expression \in BuildExprs /\ dflt \in {NonExistent, N_A}
       \/ expression \in IdExprs /\ dflt \in BuildDefaults
       \/ expression \in BracketExprs /\ dflt = NonExistent
       \/ expression \in DigitExprs /\ dflt = NonExistent
    /\ IdleGet /\ IdleE /\ IdleParser

InitGet ==
    /\ pc = "start" /\ root = <<>> /\ build_exc = ""
    /\ \/ expression \in GetExprs /\ dflt \in GetDefaults
       \/ expression \in DefaultPaths /\ dflt = D_B
       \/ expression \in NegativePaths /\ dflt = NonExistent
    /\ IdleGet /\ IdleE /\ IdleParser

InitE ==
    /\ pc = "start" /\ root = <<>> /\ build_exc = ""
    /\ expression \in EExprs /\ dflt \in EDefaults
    /\ expression2 \in EExprs2 /\ dflt2 \in EDefaults2
    /\ tree = <<>> /\ tree2 = <<>> /\ combined = <<>>
    /\ IdleGet /\ IdleParser

\* the caller of build receives the chain, or the exception
Built(b) ==
    /\ root' = b.nodes
    /\ build_exc' = b.exc
    /\ pc' = IF b.exc = "" THEN "built" ELSE "raised"

\* root = ExpressionNode.build(expression, default=dflt)
DoBuild ==
    /\ pc = "start"
    /\ Built(build(expression, dflt))
    /\ UNCHANGED <<parser, earlier>>
    /\ UNCHANGED <<expression, dflt, data, outcome, expression2, dflt2, tree, tree2,
                   combined>>

\* the chain with its last node marked optional
chain_after_get_marked(nodes) == set_optional(nodes)

\* the chain once get has returned or raised: get assigns no attribute of a node, of
\* its source or of its child
chain_after_get(nodes) == nodes

\* the data once get has returned or raised: get reads instance and never writes to it
data_after_get(instance) == instance

\* root.get(d) on a chain that build returned
DoGet ==
    /\ pc = "built"
    /\ root # <<>>
    /\ \E d \in Data :
          /\ data' = data_after_get(d)
          /\ outcome' = root_get(root, d)
    /\ root' = chain_after_get(root)
    /\ pc' = "done"
    /\ UNCHANGED <<parser, earlier>>
    /\ UNCHANGED <<expression, dflt, build_exc, expression2, dflt2, tree, tree2,
                   combined>>

\* root.get(data) once more, on the chain and the data the first call left
DoGetAgain ==
    /\ pc = "done"
    /\ root # <<>>
    /\ data' = data_after_get(data)
    /\ outcome' = root_get(root, data)
    /\ root' = chain_after_get(root)
    /\ pc' = "again"
    /\ UNCHANGED <<parser, earlier>>
    /\ UNCHANGED <<expression, dflt, build_exc, expression2, dflt2, tree, tree2,
                   combined>>

\* the caller of the two constructors receives both objects, or the first exception
Constructed(e1, e2) ==
    /\ build_exc' = (IF e1.exc # "" THEN e1.exc ELSE e2.exc)
    /\ pc' = IF e1.exc = "" /\ e2.exc = "" THEN "built" ELSE "raised"
    /\ tree' = IF e1.exc = "" /\ e2.exc = "" THEN e1.tree ELSE <<>>
    /\ tree2' = IF e1.exc = "" /\ e2.exc = "" THEN e2.tree ELSE <<>>

\* e1 = E(expression, default=dflt); e2 = E(expression2, default=dflt2)
DoConstruct ==
    /\ pc = "start"
    /\ Constructed(E_init(expression, dflt), E_init(expression2, dflt2))
    /\ UNCHANGED <<parser, earlier>>
    /\ UNCHANGED <<expression, dflt, root, data, outcome, expression2, dflt2, combined>>

\* the token list of E("", default=d)
EmptyE == <<>>

\* the right-hand operands of + and |: e2, and for an empty e1 also another E of the
\* empty expression
Operands(self_tree, other_tree) ==
    IF self_tree = <<>> THEN {other_tree, EmptyE} ELSE {other_tree}

\* e1 + e2
DoAdd ==
    /\ pc = "built"
    /\ Len(combined) < MaxCombine
    /\ \E other \in Operands(tree, tree2) : tree' = E_add(tree, other)
    /\ combined' = Append(combined, PLUS)
    /\ UNCHANGED <<parser, earlier>>
    /\ UNCHANGED <<pc, expression, dflt, root, build_exc, data, outcome, expression2,
                   dflt2, tree2>>

\* e1 | e2
DoOr ==
    /\ pc = "built"
    /\ Len(combined) < MaxCombine
    /\ \E other \in Operands(tree, tree2) : tree' = E_or(tree, other)
    /\ combined' = Append(combined, PIPE)
    /\ UNCHANGED <<parser, earlier>>
    /\ UNCHANGED <<pc, expression, dflt, root, build_exc, data, outcome, expression2,
                   dflt2, tree2>>

\* the token list of an E once get has returned or raised: E.get assigns only its
\* locals value and next_operation
E_after_get(etree) == etree

\* e1.get(d)
DoEGet ==
    /\ pc = "built"
    /\ \E d \in EData :
          /\ data' = d
          /\ outcome' = E_get(tree, dflt, d)
    /\ tree' = E_after_get(tree)
    /\ pc' = "done"
    /\ UNCHANGED <<parser, earlier>>
    /\ UNCHANGED <<expression, dflt, root, build_exc, expression2, dflt2, tree2,
                   combined>>

NextBuild == DoBuild
NextGet == DoBuild \/ DoGet \/ DoGetAgain
NextE == DoConstruct \/ DoAdd \/ DoOr \/ DoEGet

\* build alone, on strings and defaults of every shape
SpecBuild == InitBuild /\ [][NextBuild]_vars
\* build followed by get on a path and a data value
SpecGet == InitGet /\ [][NextGet]_vars
\* two E objects, combined with + and |, and evaluated
SpecE == InitE /\ [][NextE]_vars

----------------------------------------------------------------------------
(* A caller of MathParser.parse *)

\* the characters of the generated arithmetic inputs
MathAlphabet == {"0", "3", "+", "-", "*", "/", "%", "(", ")"}

\* the expressions of tests/test_tmath.py that have no function or variable, and some
\* inputs with spaces
MathExamples ==
    {<<"2", "+", "3">>, <<"1", "0", "-", "3", "-", "2">>, <<"6", "/", "2">>,
     <<"1", "0", "%", "3">>, <<"(", "2", "+", "3", ")", "*", "4">>,
     <<"-", "2", "+", "3">>, <<"+", "2", "+", "3">>, <<"6", "/", "0">>,
     <<"(", "2", "+", "3">>,
     <<"2", "*", "3", " ", "+", " ", "5", "/", "5", " ", "-", " ", "3">>,
     <<"2", " ", "3">>, <<" ">>, <<"7", "/", "2">>, <<"1", ".", "5", "*", "2">>,
     <<"7", "%", "(", "2", "-", "2", ")">>, <<"7", "/", "(", "2", "-", "2", ")">>}

\* operand operator operand operator operand
MathOperands == {<<"0">>, <<"2">>, <<"3">>, <<"-", "3">>, <<"(", "2", ")">>}
MathBinary == {ADD, SUBTRACT, MULTIPLY, DIVIDE, MODULO}
MathChains ==
    {a \o <<o1>> \o b \o <<o2>> \o c :
        a \in MathOperands, o1 \in MathBinary, b \in MathOperands, o2 \in MathBinary,
        c \in MathOperands}

MathExprs == seqs_upto(MathAlphabet, MaxMathLen) \cup MathChains \cup MathExamples

\* variables=None
NoVariables == <<>>

InitMath ==
    /\ pc = "start" /\ root = <<>> /\ build_exc = ""
    /\ expression \in MathExprs /\ dflt = NonExistent
    /\ IdleGet /\ IdleE /\ IdleParser

\* parser.parse(expression): the caller receives the number, or the exception
DoParse ==
    /\ pc = "start"
    /\ outcome' = parse(parser, expression, NoVariables)
    /\ parser' = parser_after(parser, expression, NoVariables)
    /\ pc' = "parsed"
    /\ UNCHANGED earlier
    /\ UNCHANGED <<expression, dflt, root, build_exc, data, expression2, dflt2, tree,
                   tree2, combined>>

NextMath == DoParse

\* one parse call on an arithmetic input
SpecMath == InitMath /\ [][NextMath]_vars

\* the inputs parsed on an instance that may have been used before
ReuseExprs == seqs_upto(MathAlphabet, MaxReuseLen) \cup MathExamples

\* the earlier inputs: one that raises in the middle of expr, one that raises in the
\* middle of tokenize, one that is evaluated, and an empty one
EarlierExprs ==
    {<<"3", "+">>, <<"3", "$">>, <<"2", "*", "3", "+", "5">>, <<" ">>}

InitParser ==
    /\ pc = "start" /\ root = <<>> /\ build_exc = ""
    /\ expression \in ReuseExprs /\ dflt = NonExistent
    /\ IdleGet /\ IdleE /\ IdleParser

\* an earlier parser.parse(e) whose result or exception the caller drops
DoParseEarlier ==
    /\ pc = "start"
    /\ Len(earlier) < MaxEarlier
    /\ \E e \in EarlierExprs :
          /\ parser' = parser_after(parser, e, NoVariables)
          /\ earlier' = Append(earlier, e)
    /\ UNCHANGED <<pc, expression, dflt, root, build_exc, data, outcome, expression2,
                   dflt2, tree, tree2, combined>>

NextParser == DoParseEarlier \/ DoParse

\* parse calls on one instance, the last of them observed
SpecParser == InitParser /\ [][NextParser]_vars

----------------------------------------------------------------------------
(* Reference notions used by the properties *)

IdChars == {"a", "b", "0", "1"}

\* k >= 1 non-empty identifier segments joined by '.'
IsDottedIds(e) ==
    /\ e # <<>>
    /\ \A k \in 1..Len(e) : e[k] \in IdChars \cup {DOT}
    /\ e[1] # DOT /\ e[Len(e)] # DOT
    /\ \A k \in 1..(Len(e) - 1) : ~(e[k] = DOT /\ e[k + 1] = DOT)

IsKey(node) == node.source.source_op_type = "CHILD_OBJ_SELECT"
IsIndex(node) == node.source.source_op_type = "ARRAY_INDEX_SELECT"

\* the key is in the map / the attribute is on the object / the position is in the list
Present(node, inst) ==
    IF IsKey(node)
    THEN inst.kind \in {"map", "obj"}
         /\ \E k \in 1..Len(inst.fields) : inst.fields[k].k = node.source.gs
    ELSE inst.kind \in {"list", "str"}
         /\ 0 - len(inst) <= node.source.gi /\ node.source.gi < len(inst)

\* the segment cannot be resolved: key absent from a map, attribute absent from a
\* value that is not a map, position outside a list, or an index into a scalar
Absent(node, inst) ==
    IF IsKey(node) THEN ~Present(node, inst)
    ELSE inst.kind # "map" /\ ~Present(node, inst)

ValueAt(node, inst) ==
    IF IsKey(node)
    THEN inst.fields[CHOOSE k \in 1..Len(inst.fields) : inst.fields[k].k = node.source.gs].v
    ELSE LET i == node.source.gi
         IN elements(inst)[(IF i < 0 THEN i + len(inst) ELSE i) + 1]

RECURSIVE FirstAbsent(_, _, _)
\* position of the first Key/Index segment of the chain that cannot be resolved while
\* every segment before it resolves to a value other than None; 0 if there is none
FirstAbsent(nodes, k, inst) ==
    IF k > Len(nodes) THEN 0
    ELSE IF ~(IsKey(nodes[k]) \/ IsIndex(nodes[k])) THEN 0
    ELSE IF Absent(nodes[k], inst) THEN k
    ELSE IF ~Present(nodes[k], inst) THEN 0
    ELSE IF ValueAt(nodes[k], inst) = None THEN 0
    ELSE FirstAbsent(nodes, k + 1, ValueAt(nodes[k], inst))

UpTo(n) == [k \in 1..n |-> k]

RECURSIVE WalkTo(_, _, _, _)
\* the value the segments j .. k-1 select from inst, each of them a Key or an Index
\* that is present and, but for the last, selects a value other than None: [ok, val]
WalkTo(nodes, j, k, inst) ==
    IF j >= k THEN [ok |-> TRUE, val |-> inst]
    ELSE IF ~(IsKey(nodes[j]) \/ IsIndex(nodes[j])) THEN [ok |-> FALSE, val |-> None]
    ELSE IF ~Present(nodes[j], inst) THEN [ok |-> FALSE, val |-> None]
    ELSE IF j < k - 1 /\ ValueAt(nodes[j], inst) = None THEN [ok |-> FALSE, val |-> None]
    ELSE WalkTo(nodes, j + 1, k, ValueAt(nodes[j], inst))

\* the whole chain resolves against inst
Resolves(nodes, inst) == WalkTo(nodes, 1, Len(nodes) + 1, inst).ok
Resolved(nodes, inst) == WalkTo(nodes, 1, Len(nodes) + 1, inst).val

\* one level of flattening: the elements of a list are spliced, other values appended
RECURSIVE Flatten(_)
Flatten(vals) ==
    IF vals = <<>> THEN <<>>
    ELSE IF Head(vals).kind = "list" THEN Head(vals).items \o Flatten(Tail(vals))
    ELSE <<Head(vals)>> \o Flatten(Tail(vals))

\* each distinct element once, in order of first appearance
RECURSIVE Distinct(_)
Distinct(vals) ==
    IF vals = <<>> THEN <<>>
    ELSE IF \E k \in 1..(Len(vals) - 1) : vals[k] = vals[Len(vals)]
    THEN Distinct(SubSeq(vals, 1, Len(vals) - 1))
    ELSE Append(Distinct(SubSeq(vals, 1, Len(vals) - 1)), vals[Len(vals)])

\* the text of a path
Path_a_all_b == <<"a", "[", "*", "]", ".", "b">>
Path_a_all_unique == <<"a", "[", "*", "]", "^">>
Path_a_b == <<"a", ".", "b">>
Path_a_c == <<"a", ".", "c">>
Path_b == <<"b">>

----------------------------------------------------------------------------
(* Properties of build and get *)

\* C1: for an expression made of k >= 1 non-empty identifier segments joined by '.',
\* build returns a chain of exactly k nodes whose selectors are the Key selectors of
\* the segments, in order (the child of a node is the next node of the chain).
C1_DottedKeysChain ==
    (pc # "start" /\ IsDottedIds(expression)) =>
        LET segs == split(expression, DOT)
        IN /\ build_exc = ""
           /\ Len(root) = Len(segs)
           /\ \A k \in 1..Len(segs) :
                 /\ root[k].op_type = "OBJ"
                 /\ IsKey(root[k])
                 /\ root[k].source.gs = segs[k]

\* a path of three segments, one of them longer than one character, has been built
C1_Witness ==
    /\ pc = "built" /\ IsDottedIds(expression)
    /\ Len(root) = 3
    /\ \E k \in 1..3 : Len(root[k].source.gs) > 1

\* C2: in a chain built without a default, when the first segment that cannot be
\* resolved (every segment before it resolving to a value other than None) is marked
\* optional with '?', get returns None, raises nothing, and evaluates no later segment.
C2_OptionalUnresolvedIsNone ==
    (pc = "done" /\ dflt = NonExistent /\ FirstAbsent(root, 1, data) # 0) =>
        (root[FirstAbsent(root, 1, data)].optional =>
            outcome = Returned(None, UpTo(FirstAbsent(root, 1, data))))

\* a.b?.a has been evaluated on a map whose a has no b: the second of three segments
\* is the unresolved one
C2_Witness ==
    /\ pc = "done" /\ dflt = NonExistent
    /\ Len(root) = 3
    /\ FirstAbsent(root, 1, data) = 2
    /\ root[2].optional /\ ~root[3].optional
    /\ outcome.val = None

C4_WildcardCollectsChildResults ==
    (/\ pc = "done" /\ expression = Path_a_all_b
     /\ Resolves(<<root[1]>>, data)
     /\ Resolved(<<root[1]>>, data).kind = "list"
     /\ \A k \in 1..Len(Resolved(<<root[1]>>, data).items) :
           Resolves(<<root[3]>>, Resolved(<<root[1]>>, data).items[k])) =>
        /\ outcome.exc = ""
        /\ outcome.val =
              ListV(Flatten([k \in 1..Len(Resolved(<<root[1]>>, data).items) |->
                               Resolved(<<root[3]>>, Resolved(<<root[1]>>, data).items[k])]))

\* a[*].b has been evaluated on {a: [{b: 1}, {b: 2}]}: the child ran on both elements
\* and get returned None
C4_Witness ==
    /\ pc = "done" /\ expression = Path_a_all_b
    /\ data = MapV(<<KV(KeyA, ListV(<<MapV(<<KV(KeyB, IntV(1))>>),
                                      MapV(<<KV(KeyB, IntV(2))>>)>>))>>)
    /\ outcome = Returned(None, <<1, 2, 3, 3>>)

\* C5 as stated: a[*]^ on a map whose a is a list returns the list with each distinct
\* element once, in order of first appearance.
C5_UniqueRemovesDuplicates ==
    (/\ pc = "done" /\ expression = Path_a_all_unique
     /\ Resolves(<<root[1]>>, data)
     /\ Resolved(<<root[1]>>, data).kind = "list") =>
        /\ outcome.exc = ""
        /\ outcome.val = ListV(Distinct(Resolved(<<root[1]>>, data).items))

\* a[*]^ has been evaluated on {a: [1, 1, 2]} and returned [1, 1, 2]
C5_Witness ==
    /\ pc = "done" /\ expression = Path_a_all_unique
    /\ root[2].source.unique_array
    /\ data = MapV(<<KV(KeyA, ListV(<<IntV(1), IntV(1), IntV(2)>>))>>)
    /\ outcome = Returned(ListV(<<IntV(1), IntV(1), IntV(2)>>), <<1, 2>>)

\* an expression tree of the shape A op B
IsPair(etree, op) ==
    /\ Len(etree) = 3
    /\ etree[1].type = "NODE" /\ etree[3].type = "NODE"
    /\ etree[2] = OperatorToken(op)

\* C6 as stated: for 'A | B' (written in the text or made by e1 | e2) where a segment
\* of A cannot be resolved against the data and B resolves, get returns B's value.
C6_PipeFallsBackToSecond ==
    (/\ pc = "done" /\ IsPair(tree, PIPE)
     /\ FirstAbsent(tree[1].node, 1, data) # 0
     /\ Resolves(tree[3].node, data)) =>
        /\ outcome.exc = ""
        /\ outcome.val = Resolved(tree[3].node, data)

\* E("a.b") | E("b", default="N") has been evaluated on {b: "J"} and raised
\* ValueDoesNotExist after evaluating the first operand only
C6_Witness ==
    /\ pc = "done" /\ combined = <<PIPE>>
    /\ expression = Path_a_b /\ dflt = NonExistent
    /\ expression2 = Path_b /\ dflt2 = N_A
    /\ data = MapV(<<KV(KeyB, John)>>)
    /\ outcome = Raised("ValueDoesNotExist", <<1>>)

\* what C7 says of the results x of A and y of B
C7_Concatenated(x, y) ==
    /\ (x.kind = "str" /\ y.kind = "str") =>
           outcome = Returned(StrV(x.s \o y.s), <<1, 3>>)
    /\ (x.kind = "list" /\ y.kind = "list") =>
           outcome = Returned(ListV(x.items \o y.items), <<1, 3>>)

\* C7: for 'A + B' (written in the text or made by e1 + e2) where A and B both resolve
\* against the top-level data, to two strings or to two lists, get evaluates both and
\* returns A's result followed by B's result.
C7_PlusConcatenates ==
    (/\ pc = "done" /\ IsPair(tree, PLUS)
     /\ Resolves(tree[1].node, data)
     /\ Resolves(tree[3].node, data)) =>
        C7_Concatenated(Resolved(tree[1].node, data), Resolved(tree[3].node, data))

\* E("a.b") + E("a.c") has been evaluated on {a: {b: "J", c: "D"}} and returned "JD"
C7_Witness ==
    /\ pc = "done" /\ combined = <<PLUS>>
    /\ expression = Path_a_b /\ expression2 = Path_a_c
    /\ outcome = Returned(StrV(<<"J", "D">>), <<1, 3>>)

\* the positions start, start + step, ... below min(end, n), counted
SliceCount(n, start, end, step) ==
    Cardinality({q \in 0..(n - 1) : q >= start /\ q < end /\ (q - start) % step = 0})

\* the elements of items at those positions, in order
SliceExpected(items, start, end, step) ==
    [k \in 1..SliceCount(Len(items), start, end, step) |->
        items[start + (k - 1) * step + 1]]

\* the arguments of a slice, unset ones replaced: 0, the length, 1
SliceStart(getter) == IF getter[1].none THEN 0 ELSE getter[1].val
SliceEnd(getter, n) == IF getter[2].none THEN n ELSE getter[2].val
SliceStep(getter) == IF getter[3].none THEN 1 ELSE getter[3].val

\* C8: a Slice segment without a child, with non-negative start and end and positive
\* step, applied to the list a key selects, returns the elements at the positions
\* start, start + step, ... below min(end, length); unset start, end, step mean 0, the
\* length, 1.
C8_SliceSelects ==
    (/\ pc = "done" /\ Len(root) = 2
     /\ IsKey(root[1])
     /\ root[2].source.source_op_type = "ARRAY_SLICE_SELECT"
     /\ SliceStart(root[2].source.gl) >= 0
     /\ SliceStep(root[2].source.gl) > 0
     /\ Resolves(<<root[1]>>, data)
     /\ Resolved(<<root[1]>>, data).kind = "list"
     /\ SliceEnd(root[2].source.gl, 0) >= 0) =>
        outcome =
            Returned(ListV(SliceExpected(Resolved(<<root[1]>>, data).items,
                                         SliceStart(root[2].source.gl),
                                         SliceEnd(root[2].source.gl,
                                                  Len(Resolved(<<root[1]>>, data).items)),
                                         SliceStep(root[2].source.gl))),
                     <<1, 2>>)

\* a slice with a step of 2 and an end beyond the length has selected the first and
\* the third element of a list of three
C8_Witness ==
    /\ pc = "done" /\ Len(root) = 2
    /\ root[2].source.source_op_type = "ARRAY_SLICE_SELECT"
    /\ root[2].source.gl = <<SliceInt(0), SliceInt(3), SliceInt(2)>>
    /\ data = MapV(<<KV(KeyA, ListV(<<IntV(1), IntV(2), IntV(1)>>))>>)
    /\ outcome.val = ListV(<<IntV(1), IntV(1)>>)

\* segment k is an Index, reached through present Keys and Indexes, and finds a list
\* longer than the index
IndexInRange(k) ==
    /\ IsIndex(root[k])
    /\ WalkTo(root, 1, k, data).ok
    /\ WalkTo(root, 1, k, data).val.kind = "list"
    /\ root[k].source.gi >= 0
    /\ root[k].source.gi < Len(WalkTo(root, 1, k, data).val.items)

\* the element segment k selects
IndexElement(k) == WalkTo(root, 1, k, data).val.items[root[k].source.gi + 1]

\* C9 as stated: an Index segment applied to a list longer than the index selects the
\* element at that position: get returns it when the segment is the last, and otherwise
\* does what evaluating the following segments on the element does.
C9_IndexSelectsAndContinues ==
    pc = "done" =>
        \A k \in 1..Len(root) :
            IndexInRange(k) =>
                outcome = IF k = Len(root) THEN Returned(IndexElement(k), UpTo(k))
                          ELSE get(root, k + 1, IndexElement(k), UpTo(k))

\* C9 amended: ... unless the element is None and segments follow: get then returns
\* None without evaluating them.
C9_IndexSelectsAndContinuesUnlessNone ==
    pc = "done" =>
        \A k \in 1..Len(root) :
            IndexInRange(k) =>
                outcome = IF k = Len(root) \/ IndexElement(k) = None
                          THEN Returned(IndexElement(k), UpTo(k))
                          ELSE get(root, k + 1, IndexElement(k), UpTo(k))

\* a[1].b has been evaluated on a list of two maps and returned the b of the second
C9_Witness ==
    /\ pc = "done" /\ Len(root) = 3
    /\ IndexInRange(2) /\ root[2].source.gi = 1
    /\ IsKey(root[3])
    /\ IndexElement(2) = MapV(<<KV(KeyB, IntV(2))>>)
    /\ outcome = Returned(IntV(2), <<1, 2, 3>>)

\* C10 as stated: building with a default d other than the no-default sentinel marks
\* every node optional, and every node's default equals d.
C10_DefaultOnEveryNode ==
    (pc = "built" /\ dflt # NonExistent) =>
        \A k \in 1..Len(root) :
            root[k].optional /\ ExpressionNode_default(root[k]) = dflt

\* C10 amended: building with a default d other than the no-default sentinel marks
\* every node optional, and every node's default equals d, except that the Empty
\* marker reads back as None.
C10_DefaultOnEveryNodeButEmpty ==
    (pc = "built" /\ dflt # NonExistent) =>
        \A k \in 1..Len(root) :
            /\ root[k].optional
            /\ ExpressionNode_default(root[k]) = IF dflt = Empty THEN None ELSE dflt

\* a chain of two nodes without '?' was built with the default "N"
C10_Witness ==
    /\ pc = "built" /\ dflt = N_A
    /\ Len(root) >= 2
    /\ ~contains(expression, Q_MARK)

\* every node of the chain is a Key or an Index
KeysAndIndexes(nodes) == \A k \in 1..Len(nodes) : IsKey(nodes[k]) \/ IsIndex(nodes[k])

\* C11 as stated: for a chain of Keys and Indexes built with a default d, whenever a
\* segment cannot be resolved against the data, get returns d, however many segments
\* follow the unresolved one.
C11_UnresolvedReturnsDefault ==
    (/\ pc = "done" /\ dflt # NonExistent
     /\ KeysAndIndexes(root)
     /\ FirstAbsent(root, 1, data) # 0) =>
        /\ outcome.exc = ""
        /\ outcome.val = dflt

\* a.b built with the default {b: 1} has been evaluated on {}: a is unresolved, the
\* segment b ran on the default and get returned 1
C11_Witness ==
    /\ pc = "done" /\ expression = Path_a_b
    /\ dflt = D_B
    /\ data = MapV(<<>>)
    /\ outcome = Returned(IntV(1), <<1, 2>>)

\* position i opens a bracket that position j closes
IsBracketPair(e, i, j) ==
    /\ i < j
    /\ e[i] = LSB /\ e[j] = RSB
    /\ \A k \in (i + 1)..(j - 1) : e[k] # LSB /\ e[k] # RSB

\* some bracket of e has both ':' and ',' in its content
HasSliceAndMulti(e) ==
    \E i, j \in 1..Len(e) :
        /\ IsBracketPair(e, i, j)
        /\ \E k \in (i + 1)..(j - 1) : e[k] = ":"
        /\ \E k \in (i + 1)..(j - 1) : e[k] = ","

\* C12 as stated: every bracket content that contains both ':' and ',' makes build
\* raise InvalidSourceExpression.
C12_SliceAndMultiRejected ==
    (pc # "start" /\ HasSliceAndMulti(expression)) =>
        build_exc = "InvalidSourceExpression"

\* a[:.0,0] has been built: the '.' inside the brackets split the content into a
\* Slice segment and a MultiIndex segment
C12_Witness ==
    /\ pc = "built"
    /\ expression = <<"a", "[", ":", ".", "0", ",", "0", "]">>
    /\ Len(root) = 3
    /\ root[2].source.source_op_type = "ARRAY_SLICE_SELECT"
    /\ root[3].source.source_op_type = "ARRAY_MULTI_INDEX_SELECT"

----------------------------------------------------------------------------
(* Properties of the empty expression, of repeated evaluation and of errors *)

\* C13: build("") returns None (the empty chain) whatever the default, and an E made
\* from the empty string with a default d returns d from get for every data value.
C13_EmptyExpression ==
    /\ \A d \in BuildDefaults : build(<<>>, d) = [exc |-> "", nodes |-> <<>>]
    /\ (pc # "start" /\ expression = <<>> /\ build_exc = "" /\ combined = <<>>) =>
           tree = <<>>
    /\ (pc = "done" /\ expression = <<>> /\ combined = <<>>) =>
           outcome = Returned(dflt, <<>>)

\* E("", default="N") has been evaluated on a map that is not empty and returned "N"
C13_Witness ==
    /\ pc = "done" /\ expression = <<>> /\ combined = <<>>
    /\ dflt = N_A
    /\ data = MapV(<<KV(KeyB, John)>>)
    /\ outcome.val = N_A

C15_OnlyDeclaredErrors ==
    pc = "done" => outcome.exc \in {"", "ValueDoesNotExist", "InvalidDataType"}

\* the chain of the single segment [*] has been evaluated on the list [1, 2] and
\* raised AttributeError at its first node
C15_Witness ==
    /\ pc = "done"
    /\ expression = <<"[", "*", "]">>
    /\ data = ListV(<<IntV(1), IntV(2)>>)
    /\ outcome = Raised("AttributeError", <<1>>)

\* C16 as stated: once an E is constructed, no later operation on it (get, '+', '|')
\* changes its sequence of segments and operators.
C16_ENeverChanges ==
    [][(pc \in {"built", "done"}) => (tree' = tree /\ tree2' = tree2)]_vars

\* C16 amended: once an E is constructed, get changes neither its sequence of segments
\* and operators nor a node in it; e1 + e2 and e1 | e2 append the operator and the
\* tokens of e2 to e1 in place and leave e2 as it was.
C16_EChangesOnlyByCombining ==
    [][/\ (pc = "built" /\ pc' = "done") => tree' = tree /\ tree2' = tree2
       /\ (pc = "built" /\ combined' = Append(combined, PLUS)) =>
              /\ \E other \in {tree2, EmptyE} :
                     tree' = tree \o <<OperatorToken(PLUS)>> \o other
              /\ tree2' = tree2
       /\ (pc = "built" /\ combined' = Append(combined, PIPE)) =>
              /\ \E other \in {tree2, EmptyE} :
                     tree' = tree \o <<OperatorToken(PIPE)>> \o other
              /\ tree2' = tree2]_vars

\* e1 + e2 has been applied to two E objects of one chain each: e1 now holds three
\* tokens, e2 still one
C16_Witness ==
    /\ pc = "built" /\ combined = <<PLUS>>
    /\ Len(tree) = 3 /\ tree[2] = OperatorToken(PLUS)
    /\ Len(tree2) = 1
    /\ tree[3] = tree2[1]

----------------------------------------------------------------------------
(* The grammar of arithmetic, read off a token string without parsing it left to right:
   expr := term (('+'|'-') term)*, term := factor (('*'|'/'|'%') factor)*,
   factor := NUMBER | ('+'|'-') factor | '(' expr ')' *)

\* the tokens of e without the end marker; none if e has no tokens
SentenceTokens(e) ==
    LET t == tokenize(MathParser_init, e)
    IN IF t.exc # "" THEN <<>> ELSE SubSeq(t.tokens, 1, Len(t.tokens) - 1)

RECURSIVE Depth(_, _)
\* '(' minus ')' among the first k tokens
Depth(ts, k) ==
    IF k = 0 THEN 0
    ELSE Depth(ts, k - 1) + (IF is_operator(ts[k], {LPAREN}) THEN 1
                              ELSE IF is_operator(ts[k], {RPAREN}) THEN -1 ELSE 0)

\* the operator at k stands between two operands outside every parenthesis
BinaryAt(ts, k, ops) ==
    /\ is_operator(ts[k], ops)
    /\ Depth(ts, k) = 0
    /\ k > 1
    /\ ts[k - 1].type = "NUMBER" \/ is_operator(ts[k - 1], {RPAREN})

Largest(S) == CHOOSE k \in S : \A j \in S : j <= k

\* the meaning of a token string: not a sentence, a sentence that divides by zero, or
\* a sentence with a value
NoSentence == [ok |-> FALSE, dz |-> FALSE, val |-> Unrepresented]
ZeroDivisor == [ok |-> TRUE, dz |-> TRUE, val |-> Unrepresented]
Meaning(x) == [ok |-> TRUE, dz |-> FALSE, val |-> x]

Combine(op, l, r) ==
    IF ~l.ok \/ ~r.ok THEN NoSentence
    ELSE IF l.dz \/ r.dz THEN ZeroDivisor
    ELSE IF op = ADD THEN Meaning(num_add(l.val, r.val))
    ELSE IF op = SUBTRACT THEN Meaning(num_sub(l.val, r.val))
    ELSE IF op = MULTIPLY THEN Meaning(num_mul(l.val, r.val))
    ELSE IF is_zero(r.val) THEN ZeroDivisor
    ELSE IF op = DIVIDE THEN Meaning(num_div(l.val, r.val))
    ELSE Meaning(num_mod(l.val, r.val))

Negated(m) == IF m.ok /\ ~m.dz THEN Meaning(num_neg(m.val)) ELSE m

RECURSIVE ExprMeaning(_)
RECURSIVE TermMeaning(_)
RECURSIVE FactorMeaning(_)

\* an expr is its last term added to or subtracted from the expr before it
ExprMeaning(ts) ==
    LET S == {k \in 1..Len(ts) : BinaryAt(ts, k, {ADD, SUBTRACT})}
    IN IF S = {} THEN TermMeaning(ts)
       ELSE Combine(ts[Largest(S)].s[1],
                    ExprMeaning(SubSeq(ts, 1, Largest(S) - 1)),
                    TermMeaning(SubSeq(ts, Largest(S) + 1, Len(ts))))

\* a term is the term before its last factor multiplied, divided or reduced by it
TermMeaning(ts) ==
    LET S == {k \in 1..Len(ts) : BinaryAt(ts, k, {MULTIPLY, DIVIDE, MODULO})}
    IN IF S = {} THEN FactorMeaning(ts)
       ELSE Combine(ts[Largest(S)].s[1],
                    TermMeaning(SubSeq(ts, 1, Largest(S) - 1)),
                    FactorMeaning(SubSeq(ts, Largest(S) + 1, Len(ts))))

FactorMeaning(ts) ==
    IF ts = <<>> THEN NoSentence
    ELSE IF Len(ts) = 1 THEN (IF ts[1].type = "NUMBER" THEN Meaning(ts[1].num)
                              ELSE NoSentence)
    ELSE IF is_operator(ts[1], {ADD}) THEN FactorMeaning(Tail(ts))
    ELSE IF is_operator(ts[1], {SUBTRACT}) THEN Negated(FactorMeaning(Tail(ts)))
    ELSE IF is_operator(ts[1], {LPAREN}) /\ is_operator(ts[Len(ts)], {RPAREN})
    THEN ExprMeaning(SubSeq(ts, 2, Len(ts) - 1))
    ELSE NoSentence

\* the meaning of the input string
Sentence == ExprMeaning(SentenceTokens(expression))

\* C17: an input that is a sentence of the grammar and divides by nothing that is zero
\* parses to the value the grammar gives it: '*', '/' and '%' bind tighter than '+' and
\* '-', operators of one level group from the left, a unary sign applies to the factor
\* after it, and parentheses group.
C17_ParseFollowsGrammar ==
    (pc = "parsed" /\ Sentence.ok /\ ~Sentence.dz)
        => outcome = MReturned(Sentence.val, Len(SentenceTokens(expression)))

\* 3-2*3 is -3: the product is taken first
C17_Witness ==
    /\ pc = "parsed"
    /\ expression = <<"3", "-", "2", "*", "3">>
    /\ Sentence = Meaning(Whole(-3))
    /\ outcome.exc = "" /\ outcome.val = Whole(-3)

\* C18: whenever the right operand of '/' or of '%' is zero, parse raises the division
\* by zero error, one and the same error for both operators, and returns no value.
C18_ZeroDivisorOneError ==
    (pc = "parsed" /\ Sentence.ok /\ Sentence.dz)
        => outcome.exc = "ValueError" /\ outcome.msg = "Division by zero"

\* 3/0 and 3%0 both raise, but 3%0 raises Python's own ZeroDivisionError
C18_Witness ==
    /\ pc = "parsed"
    /\ expression = <<"3", "%", "0">>
    /\ Sentence = ZeroDivisor
    /\ outcome.exc = "ZeroDivisionError"
    /\ parse(MathParser_init, <<"3", "/", "0">>, NoVariables).exc = "ValueError"

\* C19: for every input that is not a complete sentence of the grammar followed by the
\* end of the input, parse raises the syntax error and returns no value.
C19_NonSentenceRaises ==
    (pc = "parsed" /\ ~Sentence.ok) => outcome.exc = "ValueError"

\* "2 3" is no sentence, and parse returns 2 with the token 3 left over
C19_Witness ==
    /\ pc = "parsed"
    /\ expression = <<"2", " ", "3">>
    /\ ~Sentence.ok
    /\ outcome = MReturned(Whole(2), 1)
    /\ parse(MathParser_init, <<"(", "3", "(">>, NoVariables) = MReturned(Whole(3), 3)

----------------------------------------------------------------------------
(* The '|' operator inside E.get *)

\* token k of the evaluated E is '|'
PipeAt(k) == tree[k].type = "OPERATOR" /\ tree[k].op = PIPE

\* what the loop of E.get has done when it arrives at token k: the accumulator and the
\* segments evaluated
Before(k) == E_get_loop(SubSeq(tree, 1, k - 1), data, 1, Empty, "", <<>>)

\* the loop arrives at token k: nothing before it raised, and no '|' before it stopped
\* the loop
Reached(k) ==
    /\ Before(k).exc = ""
    /\ \A j \in 1..(k - 1) : PipeAt(j) => Before(j).val = Empty

\* the segment after the '|' at k is evaluated and its result is the accumulator
SegmentReplaces(k) ==
    LET got == root_get(tree[k + 1].node, data)
    IN /\ \E m \in 1..Len(outcome.visited) : outcome.visited[m] = k + 1
       /\ IF got.exc # "" THEN outcome = Raised(got.exc, Append(Before(k).visited, k + 1))
          ELSE Before(k + 2) = Returned(got.val, Append(Before(k).visited, k + 1))

\* C20: when get arrives at a '|' and the accumulator is the no-value marker, the
\* segment after the '|' is evaluated and its result becomes the accumulator; when the
\* accumulator is anything else, get stops there and returns it without evaluating
\* the segments that remain.
C20_PipeStopsOnlyOnValue ==
    (pc = "done" /\ tree # <<>>) =>
        \A k \in 1..Len(tree) :
            (PipeAt(k) /\ Reached(k)) =>
                IF Before(k).val = Empty
                THEN (k < Len(tree) /\ tree[k + 1].type = "NODE") => SegmentReplaces(k)
                ELSE outcome = Returned(Before(k).val, Before(k).visited)

\* e = E("", default="N"); e + E("", default="N"); e | E("b", default="N"), evaluated
\* on {b: "J"}: the accumulator is the marker at '|', b is evaluated, and its result is
\* added to the marker because of the '+' before, which raises TypeError
C20_Witness ==
    /\ pc = "done" /\ combined = <<PLUS, PIPE>>
    /\ expression = <<>> /\ expression2 = Path_b
    /\ Len(tree) = 3 /\ PipeAt(2) /\ Reached(2) /\ Before(2).val = Empty
    /\ tree[3].type = "NODE"
    /\ data = MapV(<<KV(KeyB, John)>>)
    /\ root_get(tree[3].node, data) = Returned(John, <<1>>)
    /\ outcome = Raised("TypeError", <<3>>)

----------------------------------------------------------------------------
(* Bracket segments *)

\* the expression is a[text] for a text without separators and suffix operators
IsBracketOfA ==
    /\ Len(expression) >= 3
    /\ expression[1] = "a" /\ expression[2] = LSB /\ expression[Len(expression)] = RSB
    /\ \A k \in 3..(Len(expression) - 1) :
           expression[k] \notin seperator_tokens \cup unr_operators \cup {" "}

BracketText == SubSeq(expression, 3, Len(expression) - 1)

AllDigits(s) == s # <<>> /\ \A k \in 1..Len(s) : is_digit(s[k])

\* C21: a bracket segment whose text is all decimal digits, of any length, is parsed as
\* an Index selector holding that integer, and a bracket segment is parsed as Wildcard
\* only when its text is '*'.
C21_DigitsAreIndex ==
    (pc # "start" /\ IsBracketOfA) =>
        /\ AllDigits(BracketText) =>
               /\ pc = "built" /\ Len(root) = 2
               /\ root[2].source.source_op_type = "ARRAY_INDEX_SELECT"
               /\ root[2].source.gi = digits_value(BracketText)
        /\ (pc = "built" /\ Len(root) = 2
            /\ root[2].source.source_op_type = "ARRAY_FULL_SELECT") =>
               BracketText = <<"*">>

\* a[10] is built as a node that looks up the key "10"
C21_Witness ==
    /\ pc = "built"
    /\ expression = <<"a", "[", "1", "0", "]">>
    /\ Len(root) = 2
    /\ root[2].source.source_op_type = "CHILD_OBJ_SELECT"
    /\ root[2].source.gs = <<"1", "0">>
    /\ build(<<"a", "[", "9", "*", "]">>, NonExistent).nodes[2].source.source_op_type
           = "ARRAY_FULL_SELECT"

\* the data is {a: list}
DataHasListAtA ==
    /\ data.kind = "map" /\ has_key(data.fields, KeyA)
    /\ lookup(data.fields, KeyA).kind = "list"

ListAtA == lookup(data.fields, KeyA).items

\* C22: a bracket segment holding a negative integer is an Index selector that selects
\* by position counted from the end of the list: a[-k] on {a: list} is the k-th element
\* from the end.
C22_NegativeIndexFromEnd ==
    \A k \in 1..2 :
        (/\ pc = "done" /\ expression = <<"a", "[", "-", digits[k + 1], "]">>
         /\ DataHasListAtA /\ Len(ListAtA) >= k) =>
            /\ root[2].source.source_op_type = "ARRAY_INDEX_SELECT"
            /\ outcome.exc = ""
            /\ outcome.val = ListAtA[Len(ListAtA) - k + 1]

\* a[-1] is built as a lookup of the key "-1" and raises on {a: [1, 2]}
C22_Witness ==
    /\ pc = "done"
    /\ expression = <<"a", "[", "-", "1", "]">>
    /\ data = MapV(<<KV(KeyA, ListV(<<IntV(1), IntV(2)>>))>>)
    /\ root[2].source.source_op_type = "CHILD_OBJ_SELECT"
    /\ root[2].source.gs = <<"-", "1">>
    /\ outcome.exc = "ValueDoesNotExist"

----------------------------------------------------------------------------
(* MultiIndex and Slice evaluation *)

IsMultiIndex(node) == node.source.source_op_type = "ARRAY_MULTI_INDEX_SELECT"

\* the chain is a key followed by a MultiIndex, the data has a list at the key and every
\* listed position is in the list
MultiIndexOnList ==
    /\ Len(root) >= 2 /\ root[1].source.gs = KeyA /\ IsKey(root[1])
    /\ IsMultiIndex(root[2])
    /\ DataHasListAtA
    /\ \A k \in 1..Len(root[2].source.gl) :
           /\ root[2].source.gl[k].val >= 0
           /\ root[2].source.gl[k].val < Len(ListAtA)

\* the elements at the listed positions, in the listed order, repeats kept
MultiSelected ==
    [k \in 1..Len(root[2].source.gl) |-> ListAtA[root[2].source.gl[k].val + 1]]

\* C23: a MultiIndex segment on a list selects exactly the elements at the listed
\* positions, in the listed order, keeping repeats: without a child get returns that
\* selection, and with a child that is a key every selected element has, get returns
\* the child's values of the selected elements.
C23_MultiIndexSelects ==
    (pc = "done" /\ MultiIndexOnList) =>
        /\ Len(root) = 2 => outcome.exc = "" /\ outcome.val = ListV(MultiSelected)
        /\ (/\ Len(root) = 3 /\ IsKey(root[3])
            /\ \A k \in 1..Len(MultiSelected) : Resolves(<<root[3]>>, MultiSelected[k])) =>
               /\ outcome.exc = ""
               /\ outcome.val =
                      ListV(Flatten([k \in 1..Len(MultiSelected) |->
                                        Resolved(<<root[3]>>, MultiSelected[k])]))

\* a[1,0] on {a: [1, 2]} returns the whole list [1, 2], not [2, 1]
C23_Witness ==
    /\ pc = "done"
    /\ expression = <<"a", "[", "1", ",", "0", "]">>
    /\ MultiIndexOnList
    /\ data = MapV(<<KV(KeyA, ListV(<<IntV(1), IntV(2)>>))>>)
    /\ MultiSelected = <<IntV(2), IntV(1)>>
    /\ outcome.exc = "" /\ outcome.val = ListV(<<IntV(1), IntV(2)>>)

\* Python's slice on a list of n elements, the unset bounds as Python reads them: for a
\* positive step from the beginning to the end, for a negative step from the last
\* element back to the first
PyBound(b, n, step, unset) ==
    IF b.none THEN unset
    ELSE LET shifted == IF b.val < 0 THEN b.val + n ELSE b.val
             low == IF step > 0 THEN 0 ELSE 0 - 1
             high == IF step > 0 THEN n ELSE n - 1
         IN IF shifted < low THEN low ELSE IF shifted > high THEN high ELSE shifted

PyStep(getter) == IF getter[3].none THEN 1 ELSE getter[3].val
PyStart(getter, n) ==
    PyBound(getter[1], n, PyStep(getter), IF PyStep(getter) > 0 THEN 0 ELSE n - 1)
PyStop(getter, n) ==
    PyBound(getter[2], n, PyStep(getter), IF PyStep(getter) > 0 THEN n ELSE 0 - 1)

PyCount(getter, n) ==
    IF PyStep(getter) > 0
    THEN Cardinality({q \in 0..(n - 1) :
                         /\ q >= PyStart(getter, n) /\ q < PyStop(getter, n)
                         /\ (q - PyStart(getter, n)) % PyStep(getter) = 0})
    ELSE Cardinality({q \in 0..(n - 1) :
                         /\ q <= PyStart(getter, n) /\ q > PyStop(getter, n)
                         /\ (PyStart(getter, n) - q) % (0 - PyStep(getter)) = 0})

\* items[start:end:step] as Python evaluates it
PySlice(items, getter) ==
    [k \in 1..PyCount(getter, Len(items)) |->
        items[PyStart(getter, Len(items)) + (k - 1) * PyStep(getter) + 1]]

\* the chain is a key followed by a Slice with a step that is not 0, and the data has a
\* list at the key
SliceOnList ==
    /\ Len(root) = 2 /\ IsKey(root[1]) /\ root[1].source.gs = KeyA
    /\ root[2].source.source_op_type = "ARRAY_SLICE_SELECT"
    /\ PyStep(root[2].source.gl) # 0
    /\ DataHasListAtA

\* C24: a Slice on a list returns what Python's slice returns for every start, end and
\* step, a negative step included, an unset bound being an unset bound of the Python
\* slice: [::-1] returns the list reversed.
C24_SliceIsPythonSlice ==
    (pc = "done" /\ SliceOnList) =>
        outcome.exc = "" /\ outcome.val = ListV(PySlice(ListAtA, root[2].source.gl))

\* a[::-1] on {a: [1, 2]} returns [] where Python's [1, 2][::-1] is [2, 1]
C24_Witness ==
    /\ pc = "done"
    /\ expression = <<"a", "[", ":", ":", "-", "1", "]">>
    /\ SliceOnList
    /\ data = MapV(<<KV(KeyA, ListV(<<IntV(1), IntV(2)>>))>>)
    /\ PySlice(ListAtA, root[2].source.gl) = <<IntV(2), IntV(1)>>
    /\ outcome.exc = "" /\ outcome.val = ListV(<<>>)

\* the chain is the key a followed by a Wildcard, MultiIndex or Slice, and the data has
\* at a a value that cannot be iterated (None is not handed to the node at all)
ArrayOnNonIterable ==
    /\ Len(root) >= 2 /\ IsKey(root[1]) /\ root[1].source.gs = KeyA
    /\ root[2].source.source_op_type \in array_op_type
    /\ data.kind = "map" /\ has_key(data.fields, KeyA)
    /\ lookup(data.fields, KeyA).kind \in {"int", "obj"}

\* C25: a Wildcard, MultiIndex or Slice segment, with or without a child, evaluated on
\* a value that is not iterable raises InvalidDataType: it neither returns the value
\* nor raises another error.
C25_NonIterableRaises ==
    (pc = "done" /\ ArrayOnNonIterable) => outcome.exc = "InvalidDataType"

\* a[*] on {a: 1} returns 1
C25_Witness ==
    /\ pc = "done"
    /\ expression = <<"a", "[", "*", "]">>
    /\ ArrayOnNonIterable
    /\ data = MapV(<<KV(KeyA, IntV(1))>>)
    /\ outcome = Returned(IntV(1), <<1, 2>>)

----------------------------------------------------------------------------
(* The unique operator and the brackets in build *)

\* '[' minus ']' among the first k characters of e
RECURSIVE BracketDepth(_, _)
BracketDepth(e, k) ==
    IF k = 0 THEN 0
    ELSE BracketDepth(e, k - 1) + (IF e[k] = LSB THEN 1 ELSE IF e[k] = RSB THEN -1 ELSE 0)

\* the last position before i that holds neither '?' nor '^'; 0 if there is none
LastBefore(e, i) ==
    IF \E j \in 1..(i - 1) : e[j] \notin unr_operators
    THEN CHOOSE j \in 1..(i - 1) :
             /\ e[j] \notin unr_operators
             /\ \A m \in (j + 1)..(i - 1) : e[m] \in unr_operators
    ELSE 0

\* the '^' at position i of e is applied to a segment written outside brackets
CaretOnDotSegment(e, i) ==
    /\ e[i] = UP_CARET
    /\ LastBefore(e, i) > 0
    /\ e[LastBefore(e, i)] \notin seperator_tokens \cup {" "}
    /\ BracketDepth(e, LastBefore(e, i)) = 0

\* the chain with the unique flag set on its last node and on no other
WithLastUnique(nodes) == [nodes EXCEPT ![Len(nodes)].source.unique_array = TRUE]

BadBrackets(e) ==
    \/ \E k \in 1..Len(e) : e[k] = LSB /\ BracketDepth(e, k - 1) >= 1
    \/ \E k \in 1..Len(e) : e[k] = RSB /\ BracketDepth(e, k - 1) <= 0
    \/ BracketDepth(e, Len(e)) > 0

\* C27: build raises InvalidSourceExpression for every expression with a '[' inside
\* brackets, a ']' outside brackets or a '[' left open at the end; it returns a chain
\* only for expressions whose brackets are balanced and not nested.
C27_BadBracketsRaise ==
    /\ (pc # "start" /\ BadBrackets(expression)) =>
           pc = "raised" /\ build_exc = "InvalidSourceExpression"
    /\ pc = "built" => ~BadBrackets(expression)

\* build("a[0") has raised: the '[' is still open at the end
C27_Witness ==
    /\ pc = "raised" /\ build_exc = "InvalidSourceExpression"
    /\ expression = <<"a", "[", "0">>
    /\ BadBrackets(expression)
    /\ build(<<"a", "[", "[", "0">>, dflt).exc = "InvalidSourceExpression"
    /\ build(<<"a", "]">>, dflt).exc = "InvalidSourceExpression"

\* C28: InvalidSourceExpression is raised only while building: for every chain build
\* returned, every E made from the same expression and every data value, neither
\* ExpressionNode.get nor E.get raises it.
C28_GetNeverRaisesInvalidExpression ==
    pc \in {"done", "again"} =>
        /\ outcome.exc # "InvalidSourceExpression"
        /\ E_init(expression, dflt).exc = "" =>
               E_get(E_init(expression, dflt).tree, dflt, data).exc
                   # "InvalidSourceExpression"

\* a get on a chain with an array node has raised, and the error is InvalidDataType;
\* E.get of the same expression raises it too
C28_Witness ==
    /\ pc = "done"
    /\ \E m \in 1..Len(root) : root[m].source.source_op_type \in array_op_type
    /\ \E m \in 1..Len(root) : root[m].source.source_op_type = "CHILD_OBJ_SELECT"
    /\ outcome.exc = "InvalidDataType"
    /\ E_init(expression, dflt).exc = ""
    /\ E_get(E_init(expression, dflt).tree, dflt, data).exc = "InvalidDataType"

\* C29: a MathParser carries no state from one parse call to the next: after any
\* sequence of earlier parse calls on the instance, those that raised part-way
\* included, parse(e) returns the same value or raises the same error, with the same
\* message, as parse(e) on a parser just created.
C29_ParseIgnoresEarlierCalls ==
    pc = "parsed" => outcome = parse(MathParser_init, expression, NoVariables)

\* the instance first raised in the middle of expr on "3+", then in the middle of
\* tokenize on "3$", and parse("2+3") on it still returns 5
C29_Witness ==
    /\ pc = "parsed"
    /\ earlier = <<(<<"3", "+">>), (<<"3", "$">>)>>
    /\ parse(MathParser_init, earlier[1], NoVariables).exc = "ValueError"
    /\ parser_after(MathParser_init, earlier[1], NoVariables).index = 2
    /\ tokenize(MathParser_init, earlier[2]).exc = "ValueError"
    /\ tokenize(MathParser_init, earlier[2]).tokens = <<NumberToken(Whole(3))>>
    /\ expression = <<"2", "+", "3">>
    /\ outcome = MReturned(Whole(5), 3)

\* C30: during parse the cursor never passes the final EOF token: parse never reads
\* self.tokens out of range, after it 0 <= index <= len(tokens) - 1, the last token is
\* the EOF and no token the cursor has passed is the EOF; when tokenize raises, no
\* token is read at all.
C30_IndexWithinTokens ==
    pc = "parsed" =>
        /\ outcome.exc # "IndexError"
        /\ parser.index = outcome.index
        /\ tokenize(MathParser_init, expression).exc = "" =>
               /\ parser.tokens # <<>>
               /\ parser.tokens[Len(parser.tokens)] = EOFToken
               /\ 0 <= parser.index /\ parser.index <= Len(parser.tokens) - 1
               /\ \A k \in 1..parser.index : parser.tokens[k] # EOFToken
        /\ tokenize(MathParser_init, expression).exc # "" =>
               /\ parser.index = 0
               /\ outcome.exc = "ValueError"
               /\ outcome.msg \in {"Empty input", "Unknown character", "float"}

\* parse("(3") stopped with the cursor on the EOF token: the closing consume refused it
C30_Witness ==
    /\ pc = "parsed"
    /\ expression = <<"(", "3">>
    /\ parser.tokens = <<MOperatorToken(LPAREN), NumberToken(Whole(3)), EOFToken>>
    /\ parser.index = 2
    /\ token_at(parser.tokens, parser.index) = EOFToken
    /\ outcome = MRaised("ValueError", "Expected", 2)

====
